---- MODULE Spec2Model ----
(***************************************************************************)
(* Stack composition engine of claude-code-stacks: the symlink overlay     *)
(* (core/symlink_manager.rs), the settings merger                          *)
(* (core/settings_merger.rs) and the markdown import manager               *)
(* (utils/claude_md_updater.rs), and the per-stack composition of          *)
(* cli/checkout.rs that sequences them.                                    *)
(*                                                                         *)
(* Names (stack names, file names) and file contents are sequences of      *)
(* one-character strings, so that prefixing, starts_with, contains, find,  *)
(* lines, trim and join are computed as the code computes them.  A fixed   *)
(* literal of the code that is only ever used whole ("/CLAUDE.md",         *)
(* "See ", ...) is one symbol of the alphabet.                             *)
(***************************************************************************)
EXTENDS Integers, Sequences, FiniteSets, TLC

VARIABLES
    links,      \* workspace .claude/{agents,commands}: <<subdir, filename>> -> entry
    walk,       \* the order in which WalkDir yields each stack subdirectory's files
    settings,   \* workspace .claude/.local-settings.json: [exists, val]
    md,         \* workspace CLAUDE.md: [exists, text]
    hist,       \* the workspace at the start and after each operation
    log,        \* the operations run so far, oldest first
    err,        \* the error the last operation returned ("none" on Ok)
    returned,   \* the value the last operation returned on Ok (<<>>: unit)
    calls,      \* for each operation, the calls it made to the components, in order
    stack_dirs  \* the stacks whose directory stacks/<name> is in the workspace

vars == <<links, walk, settings, md, hist, log, err, returned, calls, stack_dirs>>

----------------------------------------------------------------------------
(* Bounds of the model.                                                    *)

\* operations per run of the symlink overlay specification
MaxLinkOps == 3
\* operations per run of the settings merger specification
MaxSettingsOps == 2
\* operations per run of the markdown import specification
MaxMdOps == 3
\* stacks composed per run of the composition specification
MaxCompose == 2
\* entries already present in .claude/agents, .claude/commands at the start
MaxPreplaced == 1
\* operations per run of the permission scope specification
MaxPermOps == 2
\* operations per run of the capability validator specification
MaxMcpOps == 2
\* batches per run of the checkout specification
MaxBatchOps == 2
\* operations per run of the cleanup specification
MaxCleanupOps == 3

----------------------------------------------------------------------------
(* Generic helpers.                                                        *)

\* s starts with p (str::starts_with)
StartsWith(s, p) ==
    /\ Len(p) <= Len(s)
    /\ SubSeq(s, 1, Len(p)) = p

\* all orders in which the elements of a finite set can be listed
Orders(S) ==
    { o \in [1..Cardinality(S) -> S] : \A i, j \in 1..Cardinality(S) : o[i] = o[j] => i = j }

Last(s) == s[Len(s)]

----------------------------------------------------------------------------
(* Stacks: stacks/<name>/.claude/{agents,commands}/<file>.                 *)

StackA == <<"a">>
StackAB == <<"a", "_", "b">>
StackC == <<"c">>
Stacks == {StackA, StackAB, StackC}

LeafX == <<"x">>
LeafBX == <<"b", "_", "x">>

SubdirSet == {"agents", "commands"}

\* the regular files under stacks/<stack>/.claude/<sub> (empty: no such directory)
Exports(stack, sub) ==
    CASE stack = StackA /\ sub = "agents" -> {LeafX, LeafBX}
      [] stack = StackA /\ sub = "commands" -> {LeafX}
      [] stack = StackAB /\ sub = "agents" -> {LeafX}
      [] stack = StackC /\ sub = "agents" -> {LeafX}
      [] stack = StackC /\ sub = "commands" -> {LeafBX}
      [] OTHER -> {}

\* Stack::has_agents / Stack::has_commands
HasSubdir(stack, sub) == Exports(stack, sub) # {}

----------------------------------------------------------------------------
(* Paths and directory entries.                                            *)

\* stack.claude_dir.join(subdir).join(file): relative to the working directory
SourcePath(stack, sub, leaf) ==
    [abs |-> FALSE, stack |-> stack, sub |-> sub, leaf |-> leaf]

\* two paths outside the stacks: one that exists, one that does not
LivePath == [abs |-> TRUE, stack |-> <<>>, sub |-> "elsewhere", leaf |-> <<"l">>]
GonePath == [abs |-> TRUE, stack |-> <<>>, sub |-> "elsewhere", leaf |-> <<"g">>]
NoPath == [abs |-> FALSE, stack |-> <<>>, sub |-> "", leaf |-> <<>>]

\* does the path name an existing file
FileExists(p) ==
    \/ p = LivePath
    \/ /\ p.stack \in Stacks
       /\ p.sub \in SubdirSet
       /\ p.leaf \in Exports(p.stack, p.sub)

\* fs::canonicalize of an existing path: the absolute path
Canonicalize(p) == [p EXCEPT !.abs = TRUE]

NoEntry == [kind |-> "none", dest |-> NoPath]
RegularFile == [kind |-> "file", dest |-> NoPath]
Symlink(dest) == [kind |-> "link", dest |-> dest]

\* Path::exists: follows a symbolic link to its destination
PathExists(e) ==
    \/ e.kind = "file"
    \/ e.kind = "link" /\ FileExists(e.dest)

\* Path::is_symlink: lstat says symbolic link
PathIsSymlink(e) == e.kind = "link"

\* walkdir DirEntry::file_type().is_file() without follow_links: the type of
\* the entry itself, so a symbolic link is not a file
WalkFileTypeIsFile(e) == e.kind = "file"

\* a target name that leaves the stack name out
UnprefixedFilename(stack_name, filename) == <<"_">> \o filename

\* format!("{}_{}", stack_name, filename)
PrefixedFilename(stack_name, filename) == stack_name \o <<"_">> \o filename

\* the paths under .claude/agents and .claude/commands that some stack's file
\* is linked at
TargetPaths ==
    UNION { { <<sub, PrefixedFilename(s, f)>> : f \in Exports(s, sub) } :
                <<s, sub>> \in Stacks \X SubdirSet }

NoError == [kind |-> "none", path |-> <<"", <<>>>>]
Failure(kind, tp) == [kind |-> kind, path |-> tp]

----------------------------------------------------------------------------
(* Symlink overlay manager.                                                *)

\* unix_fs::symlink(dest, target): fails with EEXIST on any existing entry,
\* a dangling link included
UnixSymlink(fs, tp, dest) ==
    IF fs[tp].kind # "none"
    THEN [fs |-> fs, err |-> Failure("create_symlink", tp)]
    ELSE [fs |-> [fs EXCEPT ![tp] = Symlink(dest)], err |-> NoError]

\* a link creation that replaces whatever is at the target
create_symlink_overwriting(fs, stack, sub, leaf) ==
    LET tp == <<sub, PrefixedFilename(stack, leaf)>>
    IN  UnixSymlink([fs EXCEPT ![tp] = NoEntry], tp,
                    Canonicalize(SourcePath(stack, sub, leaf)))

create_symlink_with_prefix(fs, stack, sub, leaf) ==
    LET source == SourcePath(stack, sub, leaf)
        tp == <<sub, PrefixedFilename(stack, leaf)>>
        e == fs[tp]
        canonical_source == Canonicalize(source)
        canonical_existing ==
            IF FileExists(e.dest) THEN Canonicalize(e.dest) ELSE e.dest
    IN  IF PathExists(e)
        THEN IF PathIsSymlink(e)
             THEN IF canonical_source = canonical_existing
                  THEN [fs |-> fs, err |-> NoError]
                  ELSE UnixSymlink([fs EXCEPT ![tp] = NoEntry], tp, Canonicalize(source))
             ELSE [fs |-> fs, err |-> Failure("not_a_symlink", tp)]
        ELSE UnixSymlink(fs, tp, Canonicalize(source))

\* the loop of create_symlinks_for_subdir over the files in walk order; the
\* first error ends it and is returned
RECURSIVE LinkFiles(_, _, _, _)
LinkFiles(fs, stack, sub, files) ==
    IF files = <<>>
    THEN [fs |-> fs, err |-> NoError]
    ELSE LET r == create_symlink_with_prefix(fs, stack, sub, Head(files))
         IN  IF r.err.kind # "none" THEN r
             ELSE LinkFiles(r.fs, stack, sub, Tail(files))

create_symlinks_for_subdir(fs, order, stack, sub) ==
    LinkFiles(fs, stack, sub, order[<<stack, sub>>])

create_symlinks_for_stack(fs, order, stack) ==
    LET r1 == IF HasSubdir(stack, "agents")
              THEN create_symlinks_for_subdir(fs, order, stack, "agents")
              ELSE [fs |-> fs, err |-> NoError]
    IN  IF r1.err.kind # "none" THEN r1
        ELSE IF HasSubdir(stack, "commands")
             THEN create_symlinks_for_subdir(r1.fs, order, stack, "commands")
             ELSE r1

\* a filter that passes every symbolic link
RemoveAnySymlink(e) == PathIsSymlink(e)

\* the filter of the walk in remove_stack_symlinks
RemoveWalkFilter(e) == WalkFileTypeIsFile(e) /\ PathIsSymlink(e)

\* remove_stack_symlinks: every walked entry that passes the filter and
\* whose file name starts with "<stack_name>_" is deleted
remove_stack_symlinks(fs, stack_name) ==
    LET prefix == stack_name \o <<"_">>
    IN  [ tp \in TargetPaths |->
            IF RemoveWalkFilter(fs[tp]) /\ StartsWith(tp[2], prefix)
            THEN NoEntry
            ELSE fs[tp] ]

----------------------------------------------------------------------------
(* Settings trees: serde_json::Value.  Every value is a record of the same *)
(* shape, so that Value's structural equality is TLA+ equality.            *)

EmptyMap == [k \in {} |-> ""]
JScalar(s) == [t |-> "scalar", s |-> s, a |-> <<>>, m |-> EmptyMap]
JArray(a) == [t |-> "array", s |-> "", a |-> a, m |-> EmptyMap]
JObject(m) == [t |-> "object", s |-> "", a |-> <<>>, m |-> m]

\* Vec::contains
VecContains(a, x) == \E i \in 1..Len(a) : a[i] = x

\* an array arm that pushes every source item
AppendAll(target_array, source_array) == target_array \o source_array

\* the array arm of deep_merge: each source item not yet in the target is pushed
RECURSIVE AppendUnique(_, _)
AppendUnique(target_array, source_array) ==
    IF source_array = <<>>
    THEN target_array
    ELSE AppendUnique(
            IF VecContains(target_array, Head(source_array))
            THEN target_array
            ELSE Append(target_array, Head(source_array)),
            Tail(source_array))

\* a merge that keeps the target's value wherever neither the object arm nor
\* the array arm applies
RECURSIVE deep_merge_target_wins(_, _)
deep_merge_target_wins(target, source) ==
    IF target.t = "object" /\ source.t = "object"
    THEN JObject([ key \in (DOMAIN target.m) \cup (DOMAIN source.m) |->
            IF key \in DOMAIN source.m
            THEN IF key \in DOMAIN target.m
                 THEN deep_merge_target_wins(target.m[key], source.m[key])
                 ELSE source.m[key]
            ELSE target.m[key] ])
    ELSE IF target.t = "array" /\ source.t = "array"
         THEN JArray(AppendUnique(target.a, source.a))
         ELSE target

\* a merge whose object arm keeps only the keys of the source
RECURSIVE deep_merge_drops_keys(_, _)
deep_merge_drops_keys(target, source) ==
    IF target.t = "object" /\ source.t = "object"
    THEN JObject([ key \in DOMAIN source.m |->
            IF key \in DOMAIN target.m
            THEN deep_merge_drops_keys(target.m[key], source.m[key])
            ELSE source.m[key] ])
    ELSE IF target.t = "array" /\ source.t = "array"
         THEN JArray(AppendUnique(target.a, source.a))
         ELSE source

\* deep_merge of settings_merger.rs: objects merge key by key, arrays are
\* unioned, in every other pairing the source replaces the target
RECURSIVE deep_merge(_, _)
deep_merge(target, source) ==
    IF target.t = "object" /\ source.t = "object"
    THEN JObject([ key \in (DOMAIN target.m) \cup (DOMAIN source.m) |->
            IF key \in DOMAIN source.m
            THEN IF key \in DOMAIN target.m
                 THEN deep_merge(target.m[key], source.m[key])
                 ELSE source.m[key]
            ELSE target.m[key] ])
    ELSE IF target.t = "array" /\ source.t = "array"
         THEN JArray(AppendUnique(target.a, source.a))
         ELSE source

NoSettingsFile == [exists |-> FALSE, val |-> JObject(EmptyMap)]
SettingsFile(v) == [exists |-> TRUE, val |-> v]

\* merge_stack_settings, given the stack's .local-settings.json (absent: no-op)
merge_stack_settings(local, stack_file) ==
    IF ~stack_file.exists
    THEN local
    ELSE LET local_settings == IF local.exists THEN local.val ELSE JObject(EmptyMap)
         IN  SettingsFile(deep_merge(local_settings, stack_file.val))

----------------------------------------------------------------------------
(* Permission scope generator (core/permission_generator.rs).  Directory   *)
(* paths and the rule strings built from them are sequences of characters; *)
(* every JSON string of this part is held as such a sequence.              *)

\* the index of the last "/" of a path (0: none)
LastSlash(path) ==
    IF \E i \in 1..Len(path) : path[i] = "/"
    THEN CHOOSE i \in 1..Len(path) :
            /\ path[i] = "/"
            /\ \A j \in (i + 1)..Len(path) : path[j] # "/"
    ELSE 0

\* Path::file_stem of a directory whose name has no extension
FileStem(path) == SubSeq(path, LastSlash(path) + 1, Len(path))

\* PathBuf::from(format!("../{}-{}", current_dir.file_stem(), feature_name))
WorktreePath(current_dir, feature_name) ==
    <<"..", "/">> \o FileStem(current_dir) \o <<"-">> \o feature_name

\* the absolute path a path names in a process whose working directory is
\* current_dir: a leading "../" is the parent of the working directory
Absolute(current_dir, path) ==
    IF StartsWith(path, <<"..", "/">>)
    THEN SubSeq(current_dir, 1, LastSlash(current_dir)) \o SubSeq(path, 3, Len(path))
    ELSE path

\* the process environment: working directory, and the absolute paths that
\* do not name an existing directory
Env(current_dir, missing) == [current_dir |-> current_dir, missing |-> missing]

\* Path::canonicalize: the absolute path, an error when nothing is there
CanonicalizeDir(env, path) ==
    LET abs == Absolute(env.current_dir, path)
    IN  IF abs \in env.missing
        THEN [ok |-> FALSE, path |-> <<>>]
        ELSE [ok |-> TRUE, path |-> abs]

\* PermissionGenerator::new
PermissionGenerator(main_directory, feature_directory) ==
    [main_directory |-> main_directory, feature_directory |-> feature_directory]

\* the rule strings of the configuration
AllowRules(main_path_str, feature_path_str) ==
    << JScalar(<<"Read(">> \o main_path_str \o <<"/*)">>),
       JScalar(<<"Read(">> \o feature_path_str \o <<"/*)">>),
       JScalar(<<"Bash(cd:">> \o main_path_str \o <<")">>),
       JScalar(<<"Bash(cd:">> \o feature_path_str \o <<")">>),
       JScalar(<<"Bash(git:*)">>),
       JScalar(<<"Bash(stacks:cleanup)">>),
       JScalar(<<"Bash(touch:*)">>),
       JScalar(<<"Bash(mkdir:*)">>),
       JScalar(<<"Bash(echo:*)">>),
       JScalar(<<"Bash(cat:*)">>),
       JScalar(<<"Bash(vim:*)">>),
       JScalar(<<"Bash(nano:*)">>),
       JScalar(<<"Bash(cp:*)">>),
       JScalar(<<"Bash(mv:*)">>),
       JScalar(<<"Bash(rm:*)">>) >>

DenyRules(main_path_str) ==
    << JScalar(<<"Write(">> \o main_path_str \o <<"/*)">>),
       JScalar(<<"Edit(">> \o main_path_str \o <<"/*)">>),
       JScalar(<<"MultiEdit(">> \o main_path_str \o <<"/*)">>),
       JScalar(<<"DeleteFile(">> \o main_path_str \o <<"/*)">>),
       JScalar(<<"Bash(rm:">> \o main_path_str \o <<"/*)">>),
       JScalar(<<"Bash(mv:">> \o main_path_str \o <<"/*)">>),
       JScalar(<<"Bash(cp:*/">> \o main_path_str \o <<"/*)">>) >>

PermissionConfig(allow, deny) ==
    JObject([permissions |-> JObject([allow |-> JArray(allow), deny |-> JArray(deny)])])

GenerateOk(config) == [ok |-> TRUE, config |-> config, err |-> "none"]
GenerateErr(e) == [ok |-> FALSE, config |-> JObject(EmptyMap), err |-> e]

\* a generator that writes the deny rules for the feature directory
generate_denying_feature(self, env) ==
    LET main_path == CanonicalizeDir(env, self.main_directory)
        feature_path == CanonicalizeDir(env, self.feature_directory)
    IN  IF ~main_path.ok THEN GenerateErr("resolve_main")
        ELSE IF ~feature_path.ok THEN GenerateErr("resolve_feature")
        ELSE GenerateOk(PermissionConfig(AllowRules(main_path.path, feature_path.path),
                                         DenyRules(feature_path.path)))

generate_permission_config(self, env) ==
    LET main_path == CanonicalizeDir(env, self.main_directory)
        feature_path == CanonicalizeDir(env, self.feature_directory)
    IN  IF ~main_path.ok THEN GenerateErr("resolve_main")
        ELSE IF ~feature_path.ok THEN GenerateErr("resolve_feature")
        ELSE GenerateOk(PermissionConfig(AllowRules(main_path.path, feature_path.path),
                                         DenyRules(main_path.path)))

\* a merge into the settings that unions arrays as the settings merger does
permission_merge_unioning_arrays(target, source) == deep_merge(target, source)

\* deep_merge of permission_generator.rs: of the keys the two objects share
\* only `permissions` is merged recursively, under every other one the
\* source replaces the target; so does an array, and every other pairing
RECURSIVE permission_deep_merge(_, _)
permission_deep_merge(target, source) ==
    IF target.t = "object" /\ source.t = "object"
    THEN JObject([ key \in (DOMAIN target.m) \cup (DOMAIN source.m) |->
            IF key \in DOMAIN source.m
            THEN IF key \in DOMAIN target.m
                 THEN IF key = "permissions"
                      THEN permission_deep_merge(target.m[key], source.m[key])
                      ELSE source.m[key]
                 ELSE source.m[key]
            ELSE target.m[key] ])
    ELSE source

\* a settings file whose content is not JSON
InvalidJson == [t |-> "invalid", s |-> "", a |-> <<>>, m |-> EmptyMap]

\* one call that an operation makes, for a stack (or for none: <<>>), and
\* whether it returned Ok; in the checkout the step "subtree" is
\* add_stack_subtree (in mode "direct" it is skipped, and counts as Ok, when
\* the stack's directory is there already)
Call(stack, step, ok) == [stack |-> stack, step |-> step, ok |-> ok]

\* the canonicalize calls of generate_permission_config: the second is made
\* only when the first returned Ok
CanonicalizeCalls(self, env) ==
    LET main_ok == CanonicalizeDir(env, self.main_directory).ok
    IN  <<Call(<<>>, "canonicalize_main", main_ok)>>
            \o (IF main_ok
                THEN <<Call(<<>>, "canonicalize_feature",
                              CanonicalizeDir(env, self.feature_directory).ok)>>
                ELSE <<>>)

\* the calls on the settings path before the merge: exists, then
\* read_to_string of a file that is there, or create_dir_all of the parent
SettingsPathCalls(file) ==
    <<Call(<<>>, "settings_path_exists", TRUE)>>
        \o (IF file.exists
            THEN <<Call(<<>>, "read_to_string", TRUE)>>
            ELSE <<Call(<<>>, "create_dir_all_parent", TRUE)>>)

\* an apply that reads the settings file before it generates
apply_reading_before_generating(self, env, file) ==
    LET permission_config == generate_permission_config(self, env)
        existing_settings == IF file.exists THEN file.val ELSE JObject(EmptyMap)
    IN  IF existing_settings.t = "invalid"
        THEN [file |-> file, err |-> "parse_settings", made |-> SettingsPathCalls(file)]
        ELSE IF ~permission_config.ok
        THEN [file |-> file, err |-> permission_config.err,
              made |-> SettingsPathCalls(file) \o CanonicalizeCalls(self, env)]
        ELSE [file |-> SettingsFile(permission_deep_merge(existing_settings,
                                                          permission_config.config)),
              err |-> "none",
              made |-> SettingsPathCalls(file) \o CanonicalizeCalls(self, env)
                          \o <<Call(<<>>, "write", TRUE)>>]

\* apply_to_local_settings: generate, read or start from {}, merge, write
apply_to_local_settings(self, env, file) ==
    LET permission_config == generate_permission_config(self, env)
        existing_settings == IF file.exists THEN file.val ELSE JObject(EmptyMap)
    IN  IF ~permission_config.ok
        THEN [file |-> file, err |-> permission_config.err,
              made |-> CanonicalizeCalls(self, env)]
        ELSE IF existing_settings.t = "invalid"
             THEN [file |-> file, err |-> "parse_settings",
                   made |-> CanonicalizeCalls(self, env) \o SettingsPathCalls(file)]
             ELSE [file |-> SettingsFile(permission_deep_merge(existing_settings,
                                                               permission_config.config)),
                   err |-> "none",
                   made |-> CanonicalizeCalls(self, env) \o SettingsPathCalls(file)
                               \o <<Call(<<>>, "write", TRUE)>>]

----------------------------------------------------------------------------
(* Markdown import manager: file contents are sequences of characters.     *)

NL == "\n"
SP == " "
Whitespace == {NL, SP}
DEMARCATION == <<"-", "-", "-", "-">>

\* str::contains / str::find(..).is_some()
StrContains(content, pat) ==
    \E i \in 1..(Len(content) - Len(pat) + 1) : SubSeq(content, i, i + Len(pat) - 1) = pat

\* str::trim
RECURSIVE TrimStart(_)
TrimStart(s) ==
    IF s # <<>> /\ Head(s) \in Whitespace THEN TrimStart(Tail(s)) ELSE s

RECURSIVE TrimEnd(_)
TrimEnd(s) ==
    IF s # <<>> /\ Last(s) \in Whitespace THEN TrimEnd(SubSeq(s, 1, Len(s) - 1)) ELSE s

Trim(s) == TrimEnd(TrimStart(s))

\* str::lines: split at "\n"; a final line terminator yields no empty last line
RECURSIVE StrLines(_)
StrLines(content) ==
    IF content = <<>>
    THEN <<>>
    ELSE IF \E i \in 1..Len(content) : content[i] = NL
         THEN LET i == CHOOSE i \in 1..Len(content) :
                          /\ content[i] = NL
                          /\ \A j \in 1..(i - 1) : content[j] # NL
              IN  <<SubSeq(content, 1, i - 1)>> \o StrLines(SubSeq(content, i + 1, Len(content)))
         ELSE <<content>>

\* [String]::join("\n")
RECURSIVE JoinLines(_)
JoinLines(ls) ==
    IF ls = <<>> THEN <<>>
    ELSE IF Len(ls) = 1 THEN ls[1]
    ELSE ls[1] \o <<NL>> \o JoinLines(Tail(ls))

\* format!("@stacks/{}/CLAUDE.md", stack_name)
ImportLine(stack_name) == <<"@stacks/">> \o stack_name \o <<"/CLAUDE.md">>

\* format!("See {}.", import_line)
SeeLine(import_line) == <<"See ">> \o import_line \o <<".">>

\* a loop that stops at the demarcation line: the lines below it are lost
RECURSIVE InsertDroppingSuffix(_, _)
InsertDroppingSuffix(ls, import_line) ==
    IF ls = <<>> THEN <<>>
    ELSE IF Trim(Head(ls)) = DEMARCATION
         THEN <<Head(ls), <<>>, SeeLine(import_line)>>
         ELSE <<Head(ls)>> \o InsertDroppingSuffix(Tail(ls), import_line)

\* the loop over the lines when the content holds the demarcation
RECURSIVE InsertBelowDemarcation(_, _)
InsertBelowDemarcation(ls, import_line) ==
    IF ls = <<>> THEN <<>>
    ELSE (IF Trim(Head(ls)) = DEMARCATION
          THEN <<Head(ls), <<>>, SeeLine(import_line)>>
          ELSE <<Head(ls)>>)
         \o InsertBelowDemarcation(Tail(ls), import_line)

\* an insertion that never looks for an existing demarcation
insert_always_appends_demarcation(content, import_line) ==
    Trim(content) \o <<NL, NL>> \o DEMARCATION \o <<NL, NL>>
        \o SeeLine(import_line) \o <<NL>>

\* an insertion that puts the new reference at the end of the file
insert_reference_at_end(content, import_line) ==
    IF StrContains(content, DEMARCATION)
    THEN JoinLines(StrLines(content) \o <<<<>>, SeeLine(import_line)>>)
    ELSE Trim(content) \o <<NL, NL>> \o DEMARCATION \o <<NL, NL>>
            \o SeeLine(import_line) \o <<NL>>

insert_stack_import_with_demarcation(content, import_line) ==
    IF StrContains(content, DEMARCATION)
    THEN JoinLines(InsertBelowDemarcation(StrLines(content), import_line))
    ELSE Trim(content) \o <<NL, NL>> \o DEMARCATION \o <<NL, NL>>
            \o SeeLine(import_line) \o <<NL>>

NoMdFile == [exists |-> FALSE, text |-> <<>>]
MdFile(text) == [exists |-> TRUE, text |-> text]

\* "# Project Instructions"
ProjectHeader == <<"#", SP, "Project Instructions">>

add_stack_import_with_demarcation(file, stack_name) ==
    LET import_line == ImportLine(stack_name)
    IN  IF file.exists
        THEN IF StrContains(file.text, import_line)
             THEN file
             ELSE MdFile(insert_stack_import_with_demarcation(file.text, import_line))
        ELSE MdFile(ProjectHeader \o <<NL, NL>> \o DEMARCATION \o <<NL, NL>>
                        \o SeeLine(import_line) \o <<NL>>)

\* the loop of cleanup_demarcated_imports: the lines up to and including the
\* first demarcation line
RECURSIVE UpToDemarcation(_)
UpToDemarcation(ls) ==
    IF ls = <<>> THEN <<>>
    ELSE IF Trim(Head(ls)) = DEMARCATION THEN <<Head(ls)>>
    ELSE <<Head(ls)>> \o UpToDemarcation(Tail(ls))

cleanup_demarcated_imports(file) ==
    IF ~file.exists THEN file
    ELSE IF StrContains(file.text, DEMARCATION)
         THEN MdFile(JoinLines(UpToDemarcation(StrLines(file.text))))
         ELSE file

\* "@stacks/": the prefix of an import line
STACKS_PREFIX == <<"@stacks/">>

\* format!("See {} for additional stack instructions.", import_line)
LegacySeeLine(import_line) ==
    <<"See ">> \o import_line \o <<" for additional stack instructions.">>

\* the while loop of insert_stack_import: the first index from j on whose line
\* neither starts with "@stacks/" nor is blank (Len(lines) + 1 when none)
RECURSIVE EndOfImportsBlock(_, _)
EndOfImportsBlock(lines, j) ==
    IF j <= Len(lines) /\ (StartsWith(lines[j], STACKS_PREFIX) \/ Trim(lines[j]) = <<>>)
    THEN EndOfImportsBlock(lines, j + 1)
    ELSE j

\* the for loop of insert_stack_import from line i on (i counts from 1).  At
\* the first line that starts with "@stacks/" the lines i+1..j-1 of the block
\* are pushed, then the import; the `continue` goes on with line i+1, so the
\* lines i+1..j-1 are pushed a second time.
RECURSIVE InsertLoop(_, _, _, _, _)
InsertLoop(lines, i, result_lines, import_inserted, import_line) ==
    IF i > Len(lines)
    THEN [result_lines |-> result_lines, import_inserted |-> import_inserted]
    ELSE LET line == lines[i]
             pushed == Append(result_lines, line)
         IN  IF StartsWith(line, STACKS_PREFIX) /\ ~import_inserted
             THEN LET j == EndOfImportsBlock(lines, i + 1)
                  IN  InsertLoop(lines, i + 1,
                                 pushed \o SubSeq(lines, i + 1, j - 1) \o <<import_line>>,
                                 TRUE, import_line)
             ELSE IF /\ ~import_inserted
                     /\ Trim(line) = <<>>
                     /\ i > 1
                     /\ Trim(lines[i - 1]) # <<>>
                     /\ ~StartsWith(lines[i - 1], <<"#">>)
                  THEN InsertLoop(lines, i + 1,
                                  pushed \o <<<<>>, LegacySeeLine(import_line), <<>>>>,
                                  TRUE, import_line)
                  ELSE InsertLoop(lines, i + 1, pushed, import_inserted, import_line)

insert_stack_import(content, import_line) ==
    LET r == InsertLoop(StrLines(content), 1, <<>>, FALSE, import_line)
        at_end == IF r.result_lines # <<>> /\ Last(r.result_lines) # <<>>
                  THEN r.result_lines \o <<<<>>>>
                  ELSE r.result_lines
    IN  JoinLines(IF r.import_inserted
                  THEN r.result_lines
                  ELSE at_end \o <<<<>>, LegacySeeLine(import_line)>>)

add_stack_import(file, stack_name) ==
    LET import_line == ImportLine(stack_name)
    IN  IF file.exists
        THEN IF StrContains(file.text, import_line)
             THEN file
             ELSE MdFile(insert_stack_import(file.text, import_line))
        ELSE MdFile(ProjectHeader \o <<NL, NL, "See ">> \o import_line
                        \o <<" for additional instructions.", NL>>)

----------------------------------------------------------------------------
(* Capability requirement validator (core/mcp_validator.rs).  JSON strings *)
(* and the output of `claude mcp list` are sequences of characters; the    *)
(* name of a server declared under mcp.servers is its key, one symbol.     *)

\* Option<T>
None == <<>>
Some(x) == <<x>>

McpServer(name, transport, command, url, env) ==
    [name |-> name, transport |-> transport, command |-> command, url |-> url, env |-> env]

\* merge_json_static
RECURSIVE merge_json_static(_, _)
merge_json_static(target, source) ==
    IF target.t = "object" /\ source.t = "object"
    THEN JObject([ key \in (DOMAIN target.m) \cup (DOMAIN source.m) |->
            IF key \in DOMAIN source.m
            THEN IF key \in DOMAIN target.m
                 THEN merge_json_static(target.m[key], source.m[key])
                 ELSE source.m[key]
            ELSE target.m[key] ])
    ELSE IF target.t = "array" /\ source.t = "array"
         THEN JArray(AppendUnique(target.a, source.a))
         ELSE source

\* load_merged_settings: {} merged with .claude/.local-settings.json
load_merged_settings(file) ==
    IF ~file.exists
    THEN [ok |-> TRUE, settings |-> JObject(EmptyMap)]
    ELSE IF file.val.t = "invalid"
         THEN [ok |-> FALSE, settings |-> JObject(EmptyMap)]
         ELSE [ok |-> TRUE, settings |-> merge_json_static(JObject(EmptyMap), file.val)]

\* Value::get(key): a member of an object, None of anything else
JsonGet(v, key) ==
    IF v.t = "object" /\ key \in DOMAIN v.m THEN Some(v.m[key]) ELSE None

\* config.get(key).and_then(|v| v.as_str()); the scalars are JSON strings
GetStr(config, key) ==
    LET v == JsonGet(config, key)
    IN  IF v # None /\ v[1].t = "scalar" THEN Some(v[1].s) ELSE None

\* config.get("env").and_then(|e| e.as_object()).map(...)
GetEnv(config) ==
    LET v == JsonGet(config, "env")
    IN  IF v # None /\ v[1].t = "object"
        THEN Some([ k \in DOMAIN v[1].m |->
                        IF v[1].m[k].t = "scalar" THEN v[1].m[k].s ELSE <<>> ])
        ELSE None

parse_mcp_server_config(name, config) ==
    LET transport == GetStr(config, "transport")
    IN  McpServer(<<name>>,
                  IF transport = None THEN <<"stdio">> ELSE transport[1],
                  GetStr(config, "command"),
                  GetStr(config, "url"),
                  GetEnv(config))

\* the keys of the settings maps, in the order a serde_json Map yields them
KeyOrder == <<"github", "postgres", "redis", "sentry">>

\* for (name, config) in servers_map
RECURSIVE ServersOfMap(_, _)
ServersOfMap(servers_map, keys) ==
    IF keys = <<>> THEN <<>>
    ELSE (IF Head(keys) \in DOMAIN servers_map
          THEN <<parse_mcp_server_config(Head(keys), servers_map[Head(keys)])>>
          ELSE <<>>)
         \o ServersOfMap(servers_map, Tail(keys))

extract_mcp_from_permission(permission) ==
    IF StrContains(permission, <<"postgresql://">>)
    THEN Some(McpServer(<<"postgres">>, <<"stdio">>,
                        Some(<<"npx -y @modelcontextprotocol/server-postgres">>), None, None))
    ELSE IF StrContains(permission, <<"redis://">>)
         THEN Some(McpServer(<<"redis">>, <<"stdio">>,
                             Some(<<"docker run -i --rm mcp/redis">>), None, None))
         ELSE None

\* for permission in allow_array
RECURSIVE ServersOfPermissions(_)
ServersOfPermissions(allow_array) ==
    IF allow_array = <<>> THEN <<>>
    ELSE (IF Head(allow_array).t = "scalar"
          THEN extract_mcp_from_permission(Head(allow_array).s)
          ELSE <<>>)
         \o ServersOfPermissions(Tail(allow_array))

extract_mcp_servers_from_settings(merged) ==
    LET mcp_config == JsonGet(merged, "mcp")
        servers == IF mcp_config = None THEN None ELSE JsonGet(mcp_config[1], "servers")
        permissions == JsonGet(merged, "permissions")
        allow == IF permissions = None THEN None ELSE JsonGet(permissions[1], "allow")
    IN  (IF servers # None /\ servers[1].t = "object"
         THEN ServersOfMap(servers[1].m, KeyOrder)
         ELSE <<>>)
        \o (IF allow # None /\ allow[1].t = "array"
            THEN ServersOfPermissions(allow[1].a)
            ELSE <<>>)

\* what running `claude mcp list` gave: whether the process started, whether
\* it exited with status 0, and what it wrote
ListOutcome(spawned, success, stdout) ==
    [spawned |-> spawned, success |-> success, stdout |-> stdout]

\* line.split_whitespace().next(): the first word of a line that is not blank
RECURSIVE WordPrefix(_)
WordPrefix(s) ==
    IF s = <<>> \/ Head(s) \in Whitespace THEN <<>>
    ELSE <<Head(s)>> \o WordPrefix(Tail(s))

FirstWord(line) == WordPrefix(TrimStart(line))

\* the filter_map over the lines of the output
RECURSIVE ServerNames(_)
ServerNames(ls) ==
    IF ls = <<>> THEN <<>>
    ELSE (IF Trim(Head(ls)) = <<>> \/ StartsWith(Head(ls), <<"No", SP, "servers">>)
          THEN <<>>
          ELSE <<FirstWord(Head(ls))>>)
         \o ServerNames(Tail(ls))

\* a listing that reports a nonzero exit as an error
get_installed_failing_on_nonzero_exit(outcome) ==
    IF ~outcome.spawned \/ ~outcome.success
    THEN [ok |-> FALSE, servers |-> <<>>]
    ELSE [ok |-> TRUE, servers |-> ServerNames(StrLines(outcome.stdout))]

get_installed_mcp_servers(outcome) ==
    IF ~outcome.spawned
    THEN [ok |-> FALSE, servers |-> <<>>]
    ELSE IF ~outcome.success
         THEN [ok |-> TRUE, servers |-> <<>>]
         ELSE [ok |-> TRUE, servers |-> ServerNames(StrLines(outcome.stdout))]

\* required_servers.into_iter().filter(|s| !installed_servers.contains(&s.name))
RECURSIVE NotInstalled(_, _)
NotInstalled(required_servers, installed_servers) ==
    IF required_servers = <<>> THEN <<>>
    ELSE (IF VecContains(installed_servers, Head(required_servers).name)
          THEN <<>>
          ELSE <<Head(required_servers)>>)
         \o NotInstalled(Tail(required_servers), installed_servers)

validate_mcp_servers(file, outcome) ==
    LET loaded == load_merged_settings(file)
        required_servers == extract_mcp_servers_from_settings(loaded.settings)
        installed_servers == get_installed_mcp_servers(outcome)
    IN  IF ~loaded.ok
        THEN [ok |-> FALSE, missing |-> <<>>, err |-> "load_settings"]
        ELSE IF ~installed_servers.ok
             THEN [ok |-> FALSE, missing |-> <<>>, err |-> "claude_mcp_list"]
             ELSE [ok |-> TRUE,
                   missing |-> NotInstalled(required_servers, installed_servers.servers),
                   err |-> "none"]

----------------------------------------------------------------------------
(* Inputs: the workspaces a run can start from, the settings files read.   *)

PreplacedEntries == {RegularFile, Symlink(LivePath), Symlink(GonePath)}

NoLinks == [tp \in TargetPaths |-> NoEntry]

\* .claude/agents and .claude/commands with at most MaxPreplaced entries
InitialLinks ==
    UNION { { [tp \in TargetPaths |-> IF tp \in P THEN f[tp] ELSE NoEntry] :
                f \in [P -> PreplacedEntries] } :
            P \in { Q \in SUBSET TargetPaths : Cardinality(Q) <= MaxPreplaced } }

\* one listing order for every stack subdirectory
WalkOrders ==
    LET Keys == Stacks \X SubdirSet
        AllOrders == UNION { Orders(Exports(k[1], k[2])) : k \in Keys }
    IN  { w \in [Keys -> AllOrders] : \A k \in Keys : w[k] \in Orders(Exports(k[1], k[2])) }

Lint == JScalar("npm run lint")
Pytest == JScalar("pytest")
Ruff == JScalar("ruff check")

AllowOnly(items) == JObject([permissions |-> JObject([allow |-> JArray(items)])])

\* the settings of stack `linting` and of stack `testing`
LintingSettings == AllowOnly(<<Lint>>)
TestingSettings == AllowOnly(<<Pytest>>)

\* contents of a stack's .local-settings.json
SourceSettings ==
    { LintingSettings,
      TestingSettings,
      JObject([permissions |-> JObject([allow |-> JArray(<<Ruff, Lint>>),
                                        deny |-> JArray(<<Pytest>>)]),
               env |-> JObject([NEW |-> JScalar("value")])]),
      JObject([model |-> JScalar("opus")]),
      JObject([env |-> JObject([NEW |-> JScalar("value")])]),
      JObject([permissions |-> JObject([deny |-> JArray(<<Pytest>>)]),
               hooks |-> JScalar("on"),
               model |-> JScalar("opus")]),
      JObject([model |-> JScalar("sonnet"), env |-> JScalar("off")]),
      JObject([model |-> JArray(<<Lint>>)]),
      JArray(<<Lint, Pytest>>),
      JArray(<<Pytest, Ruff, Pytest>>),
      JScalar("true") }

\* contents of the workspace's .local-settings.json before the first merge
InitialSettings ==
    { NoSettingsFile,
      SettingsFile(JObject(EmptyMap)),
      SettingsFile(JObject([permissions |-> JObject([allow |-> JArray(<<Lint>>)]),
                            env |-> JObject([EXISTING |-> JScalar("value")]),
                            model |-> JScalar("haiku")])),
      SettingsFile(JObject([model |-> JScalar("haiku")])),
      SettingsFile(JObject([env |-> JObject([EXISTING |-> JScalar("value")])])),
      SettingsFile(JArray(<<Ruff>>)),
      SettingsFile(JArray(<<Lint, Lint>>)),
      SettingsFile(JScalar("false")) }

\* working directories of the checkout command and names of features
CurrentDirs == { <<"/", "w", "/", "p">>, <<"/", "w", "/", "p", "-", "f">> }
FeatureNames == { <<"f">>, <<"g">> }

\* the generator that setup_feature_permissions builds for a feature, and the
\* environment it runs in: both directories are there, or one of them is not
GeneratorInputs ==
    UNION { { [generator |-> PermissionGenerator(cd, WorktreePath(cd, fname)),
               env |-> Env(cd, missing)] :
                missing \in { {}, {cd}, {Absolute(cd, WorktreePath(cd, fname))} } } :
            <<cd, fname>> \in CurrentDirs \X FeatureNames }

\* rules left in a settings file by an earlier generation or by the user
StaleAllow == JScalar(<<"Read(", "/", "o", "/*)">>)
StaleDeny == JScalar(<<"Write(", "/", "o", "/*)">>)
GitRule == JScalar(<<"Bash(git:*)">>)

\* contents of the feature directory's settings.local.json before the first
\* generation
PermInitialSettings ==
    { NoSettingsFile,
      SettingsFile(JObject(EmptyMap)),
      SettingsFile(JObject([permissions |->
                                JObject([allow |-> JArray(<<StaleAllow, GitRule>>),
                                         deny |-> JArray(<<StaleDeny>>),
                                         ask |-> JArray(<<StaleAllow>>)]),
                            model |-> JScalar(<<"haiku">>)])),
      SettingsFile(JObject([permissions |-> JScalar(<<"none">>)])),
      SettingsFile(JArray(<<StaleAllow>>)),
      SettingsFile(InvalidJson) }

\* permission rules that name a connection string
PgPermission == JScalar(<<"Bash(psql:", "postgresql://", "localhost/db)">>)
RedisPermission == JScalar(<<"Bash(redis-cli:", "redis://", "host)">>)

\* contents of .claude/.local-settings.json when the servers are validated
McpInitialSettings ==
    { NoSettingsFile,
      SettingsFile(JObject([mcp |-> JObject([servers |-> JObject(
            [postgres |-> JObject([command |-> JScalar(<<"npx pg">>)]),
             github |-> JObject([transport |-> JScalar(<<"http">>),
                                 url |-> JScalar(<<"https://gh">>)])])])])),
      SettingsFile(JObject([permissions |-> JObject(
            [allow |-> JArray(<<PgPermission, GitRule, RedisPermission>>)])])),
      SettingsFile(JObject([mcp |-> JObject([servers |-> JObject(
            [postgres |-> JObject([transport |-> JScalar(<<"http">>),
                                   url |-> JScalar(<<"https://pg">>)]),
             sentry |-> JObject(EmptyMap)])]),
                            permissions |-> JObject(
            [allow |-> JArray(<<RedisPermission, PgPermission>>)])])),
      SettingsFile(JObject([mcp |-> JObject([servers |-> JArray(<<>>)])])),
      SettingsFile(InvalidJson) }

\* outcomes of running `claude mcp list`
ListOutcomes ==
    { ListOutcome(FALSE, FALSE, <<>>),
      ListOutcome(TRUE, FALSE, <<"postgres", NL>>),
      ListOutcome(TRUE, TRUE, <<>>),
      ListOutcome(TRUE, TRUE, <<"No", SP, "servers", SP, "configured", NL>>),
      ListOutcome(TRUE, TRUE, <<"postgres", SP, "npx", NL, "github", NL>>),
      ListOutcome(TRUE, TRUE, <<NL, SP, SP, "redis", SP, "docker", NL,
                                "sentry", ":", SP, "http", NL>>) }

\* the .local-settings.json of each stack of the composition specification
StackSettingsFile(stack) ==
    CASE stack = StackA -> SettingsFile(LintingSettings)
      [] stack = StackAB -> SettingsFile(TestingSettings)
      [] OTHER -> NoSettingsFile

Text == <<"t">>

\* contents of the workspace's CLAUDE.md before the first operation
InitialMd ==
    { NoMdFile,
      MdFile(<<>>),
      MdFile(<<"#", SP>> \o Text \o <<NL, NL>> \o Text),
      MdFile(Text \o <<NL>>),
      MdFile(Text \o DEMARCATION \o Text \o <<NL, NL>>),
      MdFile(<<"-">> \o DEMARCATION \o <<NL>> \o Text),
      MdFile(Text \o <<NL, NL>> \o DEMARCATION),
      MdFile(Text \o <<NL, SP>> \o DEMARCATION \o <<SP, NL>> \o Text \o <<NL>>),
      MdFile(Text \o <<NL>> \o DEMARCATION \o <<NL>> \o DEMARCATION \o <<NL>>),
      MdFile(Text \o <<NL, NL>> \o DEMARCATION \o <<NL, NL>>
                \o SeeLine(ImportLine(StackA)) \o <<NL>>) }

\* contents of the workspace's CLAUDE.md before the first legacy apply
LegacyInitialMd ==
    { NoMdFile,
      MdFile(<<>>),
      MdFile(Text \o <<NL>>),
      MdFile(<<"#", SP>> \o Text \o <<NL, NL>> \o Text \o <<NL, NL, "#">> \o Text \o <<NL>>),
      MdFile(<<"#", SP>> \o Text \o <<NL, NL>> \o ImportLine(StackA)
                \o <<NL, NL, "#", "#", SP>> \o Text \o <<NL>>),
      MdFile(ImportLine(StackA) \o <<NL>> \o ImportLine(StackAB) \o <<NL>> \o Text),
      MdFile(Text \o <<NL>> \o ImportLine(StackAB) \o <<NL>> \o Text \o <<NL>>) }

----------------------------------------------------------------------------
(* The state machine.                                                      *)

Workspace == [links |-> links, settings |-> settings, md |-> md]

Op(op, stack, src, ok) == [op |-> op, stack |-> stack, src |-> src, ok |-> ok]

RecordAll(op, stack, src, e, value, made, dirs) ==
    /\ hist' = Append(hist, Workspace')
    /\ log' = Append(log, Op(op, stack, src, e.kind = "none"))
    /\ err' = e
    /\ returned' = value
    /\ calls' = Append(calls, made)
    /\ stack_dirs' = dirs

RecordReturning(op, stack, src, e, value) ==
    RecordAll(op, stack, src, e, value, <<>>, stack_dirs)

Record(op, stack, src, e) == RecordReturning(op, stack, src, e, <<>>)

InitWith(ls, ss, ms) ==
    /\ walk \in WalkOrders
    /\ links \in ls
    /\ settings \in ss
    /\ md \in ms
    /\ hist = <<Workspace>>
    /\ log = <<>>
    /\ err = NoError
    /\ returned = <<>>
    /\ calls = <<>>
    /\ stack_dirs = Stacks

\* SymlinkManager::create_symlinks_for_stack
CreateSymlinks(stack) ==
    LET r == create_symlinks_for_stack(links, walk, stack)
    IN  /\ Len(log) < MaxLinkOps
        /\ links' = r.fs
        /\ UNCHANGED <<walk, settings, md>>
        /\ Record("create_symlinks", stack, NoSettingsFile, r.err)

\* SymlinkManager::remove_stack_symlinks
RemoveSymlinks(stack) ==
    /\ Len(log) < MaxLinkOps
    /\ links' = remove_stack_symlinks(links, stack)
    /\ UNCHANGED <<walk, settings, md>>
    /\ Record("remove_symlinks", stack, NoSettingsFile, NoError)

\* SettingsMerger::merge_stack_settings for a stack whose settings file holds src
MergeSettings(src) ==
    /\ Len(log) < MaxSettingsOps
    /\ settings' = merge_stack_settings(settings, src)
    /\ UNCHANGED <<links, walk, md>>
    /\ Record("merge_settings", <<>>, src, NoError)

\* ClaudeMdUpdater::add_stack_import_with_demarcation
AddImportWithDemarcation(stack) ==
    /\ Len(log) < MaxMdOps
    /\ md' = add_stack_import_with_demarcation(md, stack)
    /\ UNCHANGED <<links, walk, settings>>
    /\ Record("add_import_demarcated", stack, NoSettingsFile, NoError)

\* ClaudeMdUpdater::cleanup_demarcated_imports
CleanupImports ==
    /\ Len(log) < MaxMdOps
    /\ md' = cleanup_demarcated_imports(md)
    /\ UNCHANGED <<links, walk, settings>>
    /\ Record("cleanup_imports", <<>>, NoSettingsFile, NoError)

\* ClaudeMdUpdater::add_stack_import
AddImport(stack) ==
    /\ Len(log) < MaxMdOps
    /\ md' = add_stack_import(md, stack)
    /\ UNCHANGED <<links, walk, settings>>
    /\ Record("add_import", stack, NoSettingsFile, NoError)

\* PermissionGenerator::apply_to_local_settings on the feature directory's
\* settings file
ApplyToLocalSettings(input) ==
    LET r == apply_to_local_settings(input.generator, input.env, settings)
    IN  /\ Len(log) < MaxPermOps
        /\ settings' = r.file
        /\ UNCHANGED <<links, walk, md>>
        /\ RecordAll("apply_to_local_settings", <<>>, input,
                     IF r.err = "none" THEN NoError ELSE Failure(r.err, <<"", <<>>>>),
                     <<>>, r.made, stack_dirs)

\* McpValidator::validate_mcp_servers
ValidateMcpServers(outcome) ==
    LET r == validate_mcp_servers(settings, outcome)
    IN  /\ Len(log) < MaxMcpOps
        /\ UNCHANGED <<links, walk, settings, md>>
        /\ RecordReturning("validate_mcp_servers", <<>>, outcome,
                           IF r.ok THEN NoError ELSE Failure(r.err, <<"", <<>>>>),
                           r.missing)

\* the body of the loop of add_stacks_to_worktree for one stack: symlinks,
\* then settings, then the demarcated import; the first error ends it
ComposeStack(ws, order, stack) ==
    LET r == create_symlinks_for_stack(ws.links, order, stack)
    IN  IF r.err.kind # "none"
        THEN [ws |-> [ws EXCEPT !.links = r.fs], err |-> r.err]
        ELSE [ws |-> [links |-> r.fs,
                      settings |-> merge_stack_settings(ws.settings, StackSettingsFile(stack)),
                      md |-> add_stack_import_with_demarcation(ws.md, stack)],
              err |-> NoError]

AddStackToWorktree(stack) ==
    LET r == ComposeStack(Workspace, walk, stack)
    IN  /\ Len(log) < MaxCompose
        /\ links' = r.ws.links
        /\ settings' = r.ws.settings
        /\ md' = r.ws.md
        /\ UNCHANGED walk
        /\ Record("add_stack", stack, StackSettingsFile(stack), r.err)

----------------------------------------------------------------------------
(* Checkout of a selection of stacks (cli/checkout.rs): the loop of         *)
(* add_stacks_to_worktree (mode "worktree": demarcated import) and the     *)
(* loop of run_with_stack (mode "direct": import without demarcation).     *)
(* An input/output call of a component can fail for a reason outside the   *)
(* workspace; a fault names the call that does: the item of the batch, the *)
(* step, and for the symlink step which of its symlink calls.              *)

NoFault == [item |-> 0, step |-> "none", at |-> 0]

\* create_symlink_with_prefix when its unix_fs::symlink call fails: a stale
\* link has been removed by then
create_symlink_failing_to_link(fs, stack, sub, leaf) ==
    LET source == SourcePath(stack, sub, leaf)
        tp == <<sub, PrefixedFilename(stack, leaf)>>
        e == fs[tp]
        canonical_source == Canonicalize(source)
        canonical_existing ==
            IF FileExists(e.dest) THEN Canonicalize(e.dest) ELSE e.dest
    IN  IF PathExists(e)
        THEN IF PathIsSymlink(e)
             THEN IF canonical_source = canonical_existing
                  THEN [fs |-> fs, err |-> NoError]
                  ELSE [fs |-> [fs EXCEPT ![tp] = NoEntry],
                        err |-> Failure("create_symlink", tp)]
             ELSE [fs |-> fs, err |-> Failure("not_a_symlink", tp)]
        ELSE [fs |-> fs, err |-> Failure("create_symlink", tp)]

\* the files of the stack in the order create_symlinks_for_stack links them:
\* agents, then commands
RECURSIVE Paired(_, _)
Paired(sub, files) ==
    IF files = <<>> THEN <<>> ELSE <<<<sub, Head(files)>>>> \o Paired(sub, Tail(files))

\* create_symlinks_for_stack in which the at-th unix_fs::symlink call fails
RECURSIVE LinkFilesFaulting(_, _, _, _)
LinkFilesFaulting(fs, stack, pairs, at) ==
    IF pairs = <<>>
    THEN [fs |-> fs, err |-> NoError]
    ELSE LET sub == Head(pairs)[1]
             leaf == Head(pairs)[2]
             failing == create_symlink_failing_to_link(fs, stack, sub, leaf)
             reached == failing.err.kind = "create_symlink"
             r == create_symlink_with_prefix(fs, stack, sub, leaf)
         IN  IF reached /\ at = 1 THEN failing
             ELSE IF r.err.kind # "none" THEN r
             ELSE LinkFilesFaulting(r.fs, stack, Tail(pairs),
                                    IF reached THEN at - 1 ELSE at)

\* create_symlinks_for_stack in which the at-th unix_fs::symlink call fails:
\* the files are linked in the order agents, then commands
create_symlinks_faulting(fs, order, stack, at) ==
    LinkFilesFaulting(fs, stack,
                      Paired("agents", order[<<stack, "agents">>])
                          \o Paired("commands", order[<<stack, "commands">>]),
                      at)

\* a loop body without the `?`: every step runs whatever the earlier steps
\* returned, and the first error is returned at the end
compose_ignoring_errors(mode, ws, order, stack, fault) ==
    LET linked == IF fault.step = "symlinks"
                  THEN create_symlinks_faulting(ws.links, order, stack, fault.at)
                  ELSE create_symlinks_for_stack(ws.links, order, stack)
        stack_file == StackSettingsFile(stack)
        import_present == ws.md.exists /\ StrContains(ws.md.text, ImportLine(stack))
        settings_fail == fault.step = "settings" /\ stack_file.exists
        markdown_fail == fault.step = "markdown" /\ ~import_present
    IN  [ws |-> [links |-> linked.fs,
                 settings |-> IF settings_fail THEN ws.settings
                              ELSE merge_stack_settings(ws.settings, stack_file),
                 md |-> IF markdown_fail THEN ws.md
                        ELSE IF mode = "worktree"
                        THEN add_stack_import_with_demarcation(ws.md, stack)
                        ELSE add_stack_import(ws.md, stack)],
         err |-> IF fault.step = "subtree" THEN Failure("add_stack_subtree", <<"", stack>>)
                 ELSE IF linked.err.kind # "none" THEN linked.err
                 ELSE IF settings_fail THEN Failure("write_settings", <<"", stack>>)
                 ELSE IF markdown_fail THEN Failure("write_markdown", <<"", stack>>)
                 ELSE NoError,
         made |-> << Call(stack, "subtree", fault.step # "subtree"),
                     Call(stack, "symlinks", linked.err.kind = "none"),
                     Call(stack, "settings", ~settings_fail),
                     Call(stack, "markdown", ~markdown_fail) >>]

\* symlink_manager.create_symlinks_for_stack(stack).await?: c is what the
\* steps before it left (workspace, error, calls made); a step runs only
\* when the steps before it returned Ok
SymlinksStep(c, order, stack, fault) ==
    LET linked == IF fault.step = "symlinks"
                  THEN create_symlinks_faulting(c.ws.links, order, stack, fault.at)
                  ELSE create_symlinks_for_stack(c.ws.links, order, stack)
    IN  IF c.err.kind # "none" THEN c
        ELSE [ws |-> [c.ws EXCEPT !.links = linked.fs],
              err |-> linked.err,
              made |-> Append(c.made, Call(stack, "symlinks", linked.err.kind = "none"))]

\* settings_merger.merge_stack_settings(stack).await?: the write of the
\* settings file is the call that can fail, and only a stack that has a
\* settings file gets that far
SettingsStep(c, stack, fault) ==
    IF c.err.kind # "none" THEN c
    ELSE IF fault.step = "settings" /\ StackSettingsFile(stack).exists
    THEN [c EXCEPT !.err = Failure("write_settings", <<"", stack>>),
                   !.made = Append(@, Call(stack, "settings", FALSE))]
    ELSE [c EXCEPT !.ws.settings = merge_stack_settings(@, StackSettingsFile(stack)),
                   !.made = Append(@, Call(stack, "settings", TRUE))]

\* the import step of the mode, with its `?`: the write of CLAUDE.md is the
\* call that can fail, and it is made only when the reference is not there
MarkdownStep(mode, c, stack, fault) ==
    IF c.err.kind # "none" THEN c
    ELSE IF /\ fault.step = "markdown"
            /\ ~(c.ws.md.exists /\ StrContains(c.ws.md.text, ImportLine(stack)))
    THEN [c EXCEPT !.err = Failure("write_markdown", <<"", stack>>),
                   !.made = Append(@, Call(stack, "markdown", FALSE))]
    ELSE [c EXCEPT !.ws.md = IF mode = "worktree"
                             THEN add_stack_import_with_demarcation(@, stack)
                             ELSE add_stack_import(@, stack),
                   !.made = Append(@, Call(stack, "markdown", TRUE))]

\* the body of the loop for one stack: add_stack_subtree, then
\* create_symlinks_for_stack, merge_stack_settings and the import, each
\* followed by `?`
ComposeCalls(mode, ws, order, stack, fault) ==
    MarkdownStep(mode,
        SettingsStep(
            SymlinksStep(
                IF fault.step = "subtree"
                THEN [ws |-> ws, err |-> Failure("add_stack_subtree", <<"", stack>>),
                      made |-> <<Call(stack, "subtree", FALSE)>>]
                ELSE [ws |-> ws, err |-> NoError,
                      made |-> <<Call(stack, "subtree", TRUE)>>],
                order, stack, fault),
            stack, fault),
        stack, fault)

\* for stack in stacks { ... ? ... }: done is what the stacks before the i-th
\* left; the first error ends the loop and is returned
RECURSIVE StacksLoop(_, _, _, _, _, _)
StacksLoop(mode, done, order, stacks, i, fault) ==
    IF i > Len(stacks) \/ done.err.kind # "none"
    THEN done
    ELSE StacksLoop(mode,
                    [ComposeCalls(mode, done.ws, order, stacks[i],
                                  IF fault.item = i THEN fault ELSE NoFault)
                        EXCEPT !.made = done.made \o @],
                    order, stacks, i + 1, fault)

\* the selections of stacks that are checked out
Selections == { <<StackA>>, <<StackC, StackA>>, <<StackA, StackAB>> }

\* the checkouts: the mode, the selection, and the call that fails for a
\* reason outside the workspace (at most one, in the first stack)
BatchInputs ==
    { [mode |-> "worktree", stacks |-> <<StackA>>, fault |-> NoFault],
      [mode |-> "worktree", stacks |-> <<StackA>>,
       fault |-> [item |-> 1, step |-> "markdown", at |-> 0]],
      [mode |-> "worktree", stacks |-> <<StackA>>,
       fault |-> [item |-> 1, step |-> "symlinks", at |-> 2]],
      [mode |-> "worktree", stacks |-> <<StackC, StackA>>, fault |-> NoFault],
      [mode |-> "worktree", stacks |-> <<StackC, StackA>>,
       fault |-> [item |-> 1, step |-> "subtree", at |-> 0]],
      [mode |-> "worktree", stacks |-> <<StackA, StackAB>>, fault |-> NoFault],
      [mode |-> "worktree", stacks |-> <<StackA, StackAB>>,
       fault |-> [item |-> 1, step |-> "settings", at |-> 0]],
      [mode |-> "worktree", stacks |-> <<StackA, StackAB>>,
       fault |-> [item |-> 1, step |-> "symlinks", at |-> 1]],
      [mode |-> "direct", stacks |-> <<StackA>>, fault |-> NoFault],
      [mode |-> "direct", stacks |-> <<StackA>>,
       fault |-> [item |-> 1, step |-> "settings", at |-> 0]],
      [mode |-> "direct", stacks |-> <<StackA, StackAB>>, fault |-> NoFault],
      [mode |-> "direct", stacks |-> <<StackA, StackAB>>,
       fault |-> [item |-> 1, step |-> "markdown", at |-> 0]] }

\* add_stacks_to_worktree (mode "worktree") and the loop of run_with_stack
\* (mode "direct") over a selection
AddStacksToWorktree(mode, stacks, fault) ==
    \E r \in { StacksLoop(mode, [ws |-> Workspace, err |-> NoError, made |-> <<>>],
                          walk, stacks, 1, fault) } :
        /\ Len(log) < MaxBatchOps
        /\ links' = r.ws.links
        /\ settings' = r.ws.settings
        /\ md' = r.ws.md
        /\ UNCHANGED walk
        /\ RecordAll("add_stacks", <<>>, [mode |-> mode, stacks |-> stacks, fault |-> fault], r.err,
                     <<>>, r.made,
                     stack_dirs \cup { r.made[i].stack :
                                         i \in { j \in 1..Len(r.made) :
                                                   /\ r.made[j].step = "subtree"
                                                   /\ r.made[j].ok } })

----------------------------------------------------------------------------
(* Cleanup of a worktree (cli/cleanup.rs) and the removal walk of          *)
(* SymlinkManager::remove_stack_symlinks with its `?`.                     *)

\* the walk of remove_stack_symlinks over the entries in the order WalkDir
\* yields them: an entry that passes the filter and has the prefix is
\* deleted; fs::remove_file fails on the entries in undeletable, and the
\* `?` then ends the walk with that error
RECURSIVE RemoveWalk(_, _, _, _)
RemoveWalk(fs, prefix, walked, undeletable) ==
    IF walked = <<>>
    THEN [fs |-> fs, err |-> NoError]
    ELSE LET tp == Head(walked)
         IN  IF RemoveWalkFilter(fs[tp]) /\ StartsWith(tp[2], prefix)
             THEN IF tp \in undeletable
                  THEN [fs |-> fs, err |-> Failure("remove_symlink", tp)]
                  ELSE RemoveWalk([fs EXCEPT ![tp] = NoEntry], prefix,
                                  Tail(walked), undeletable)
             ELSE RemoveWalk(fs, prefix, Tail(walked), undeletable)

\* SymlinkManager::remove_stack_symlinks, given the listing order and the
\* entries that cannot be deleted: the entries of .claude/agents are walked
\* and then those of .claude/commands, each directory in the order its
\* entries are listed
remove_stack_symlinks_walking(fs, stack_name, listing, undeletable) ==
    RemoveWalk(fs, stack_name \o <<"_">>,
               SelectSeq(listing, LAMBDA tp : tp[1] = "agents")
                   \o SelectSeq(listing, LAMBDA tp : tp[1] = "commands"),
               undeletable)

\* remove_stack_symlinks of cleanup.rs: the symlink manager is called for
\* every stack name; an error is printed as a warning and the loop goes on
RECURSIVE remove_symlinks_of_stacks(_, _, _, _)
remove_symlinks_of_stacks(fs, stack_names, listing, undeletable) ==
    IF stack_names = <<>>
    THEN [fs |-> fs, err |-> NoError, made |-> <<>>]
    ELSE LET r == remove_stack_symlinks_walking(fs, Head(stack_names), listing, undeletable)
             rest == remove_symlinks_of_stacks(r.fs, Tail(stack_names), listing, undeletable)
         IN  [fs |-> rest.fs,
              err |-> NoError,
              made |-> <<Call(Head(stack_names), "remove_symlinks", r.err.kind = "none")>>
                          \o rest.made]

\* remove_stacks_directories: remove_dir_all of every stack directory that
\* is there; a failure is printed as a warning
RECURSIVE remove_stacks_directories(_, _, _)
remove_stacks_directories(dirs, stack_names, kept) ==
    IF stack_names = <<>>
    THEN [dirs |-> dirs, made |-> <<>>]
    ELSE LET name == Head(stack_names)
             rest == remove_stacks_directories(
                        IF name \in kept THEN dirs ELSE dirs \ {name},
                        Tail(stack_names), kept)
         IN  [dirs |-> rest.dirs,
              made |-> (IF name \in dirs
                        THEN <<Call(name, "remove_directory", name \notin kept)>>
                        ELSE <<>>) \o rest.made]

\* cleanup_worktree, given what goes wrong (fault.push: git cannot be started
\* for the push; fault.undeletable, fault.kept: the links and the stack
\* directories that cannot be deleted), the order in which find_stack_names lists the
\* stack directories and the order in which the link directories are listed
cleanup_worktree(ws, dirs, names, listing, fault) ==
    LET stack_names == SelectSeq(names, LAMBDA n : n \in dirs)
        removed == remove_symlinks_of_stacks(ws.links, stack_names, listing,
                                             fault.undeletable)
        directories == remove_stacks_directories(dirs, stack_names, fault.kept)
        pushed == Call(<<>>, "push_stack_changes", ~fault.push)
    IN  IF stack_names = <<>>
        THEN [ws |-> ws, dirs |-> dirs, err |-> NoError, made |-> <<>>]
        ELSE IF ~pushed.ok
        THEN [ws |-> ws, dirs |-> dirs, err |-> Failure("push_stack_changes", <<"", <<>>>>),
              made |-> <<pushed>>]
        ELSE IF removed.err.kind # "none"
        THEN [ws |-> [ws EXCEPT !.links = removed.fs], dirs |-> dirs, err |-> removed.err,
              made |-> <<pushed>> \o removed.made]
        ELSE [ws |-> [ws EXCEPT !.links = removed.fs,
                                !.md = cleanup_demarcated_imports(ws.md)],
              dirs |-> directories.dirs,
              err |-> NoError,
              made |-> <<pushed>> \o removed.made \o directories.made
                          \o <<Call(<<>>, "clean_claude_md", TRUE)>>]

\* two orders in which find_stack_names lists the stack directories
NamesForward == <<StackA, StackAB, StackC>>
NamesBackward == <<StackC, StackAB, StackA>>

\* two orders in which the entries of the link directories are listed
ListingForward ==
    << <<"agents", PrefixedFilename(StackA, LeafX)>>,
       <<"agents", PrefixedFilename(StackA, LeafBX)>>,
       <<"agents", PrefixedFilename(StackC, LeafX)>>,
       <<"commands", PrefixedFilename(StackA, LeafX)>>,
       <<"commands", PrefixedFilename(StackC, LeafBX)>> >>
ListingBackward ==
    << <<"commands", PrefixedFilename(StackC, LeafBX)>>,
       <<"agents", PrefixedFilename(StackC, LeafX)>>,
       <<"commands", PrefixedFilename(StackA, LeafX)>>,
       <<"agents", PrefixedFilename(StackA, LeafBX)>>,
       <<"agents", PrefixedFilename(StackA, LeafX)>> >>

\* a link of stack a that cannot be deleted
StuckLink == <<"agents", PrefixedFilename(StackA, LeafX)>>

\* the listing order and the links that cannot be deleted of a removal
RemovalInputs ==
    { [listing |-> ListingForward, undeletable |-> {}],
      [listing |-> ListingBackward, undeletable |-> {StuckLink}] }

\* the orders and the fault of a cleanup
CleanupInputs ==
    { [names |-> NamesForward, listing |-> ListingForward,
        fault |-> [push |-> FALSE, undeletable |-> {}, kept |-> {}]],
      [names |-> NamesBackward, listing |-> ListingBackward,
        fault |-> [push |-> FALSE, undeletable |-> {}, kept |-> {}]],
      [names |-> NamesForward, listing |-> ListingBackward,
        fault |-> [push |-> TRUE, undeletable |-> {}, kept |-> {}]],
      [names |-> NamesForward, listing |-> ListingBackward,
        fault |-> [push |-> FALSE, undeletable |-> {StuckLink}, kept |-> {}]],
      [names |-> NamesBackward, listing |-> ListingForward,
        fault |-> [push |-> FALSE, undeletable |-> {}, kept |-> {StackA}]] }

\* SymlinkManager::remove_stack_symlinks, its result included
RemoveSymlinksWalking(stack, input) ==
    LET r == remove_stack_symlinks_walking(links, stack, input.listing, input.undeletable)
    IN  /\ Len(log) < MaxCleanupOps
        /\ links' = r.fs
        /\ UNCHANGED <<walk, settings, md>>
        /\ RecordAll("remove_symlinks", stack, input, r.err, <<>>,
                     <<Call(stack, "remove_symlinks", r.err.kind = "none")>>, stack_dirs)

\* cleanup_worktree
CleanupWorktree(input) ==
    LET r == cleanup_worktree(Workspace, stack_dirs, input.names, input.listing, input.fault)
    IN  /\ Len(log) < MaxCleanupOps
        /\ links' = r.ws.links
        /\ settings' = r.ws.settings
        /\ md' = r.ws.md
        /\ UNCHANGED walk
        /\ RecordAll("cleanup_worktree", <<>>, input, r.err, <<>>, r.made, r.dirs)

----------------------------------------------------------------------------
(* Specifications.                                                         *)

\* the symlink overlay manager alone
InitLinks == InitWith(InitialLinks, {NoSettingsFile}, {NoMdFile})
NextLinks ==
    \/ \E stack \in Stacks : CreateSymlinks(stack)
    \/ \E stack \in Stacks : RemoveSymlinks(stack)
SpecLinks == InitLinks /\ [][NextLinks]_vars

\* the settings merger alone
InitSettings == InitWith({NoLinks}, InitialSettings, {NoMdFile})
NextSettings ==
    \E src \in SourceSettings : MergeSettings(SettingsFile(src))
SpecSettings == InitSettings /\ [][NextSettings]_vars

\* the markdown import manager alone
InitMd == InitWith({NoLinks}, {NoSettingsFile}, InitialMd)
NextMd ==
    \/ \E stack \in Stacks : AddImportWithDemarcation(stack)
    \/ CleanupImports
SpecMd == InitMd /\ [][NextMd]_vars

\* the markdown import manager in the mode without demarcation
InitMdLegacy == InitWith({NoLinks}, {NoSettingsFile}, LegacyInitialMd)
NextMdLegacy ==
    \E stack \in Stacks : AddImport(stack)
SpecMdLegacy == InitMdLegacy /\ [][NextMdLegacy]_vars

\* the permission scope generator alone
InitPerm == InitWith({NoLinks}, PermInitialSettings, {NoMdFile})
NextPerm ==
    \E input \in GeneratorInputs : ApplyToLocalSettings(input)
SpecPerm == InitPerm /\ [][NextPerm]_vars

\* the capability requirement validator alone
InitMcp == InitWith({NoLinks}, McpInitialSettings, {NoMdFile})
NextMcp ==
    \E outcome \in ListOutcomes : ValidateMcpServers(outcome)
SpecMcp == InitMcp /\ [][NextMcp]_vars

\* the composition of stacks into one workspace
ComposeLinks ==
    { NoLinks,
      [NoLinks EXCEPT ![<<"agents", PrefixedFilename(StackC, LeafX)>>] = RegularFile],
      [NoLinks EXCEPT ![<<"agents", PrefixedFilename(StackA, LeafX)>>] = Symlink(LivePath)] }
ComposeSettings ==
    { NoSettingsFile, SettingsFile(JObject([model |-> JScalar("haiku")])) }

Init == InitWith(ComposeLinks, ComposeSettings, InitialMd)
Next ==
    \E stack \in Stacks : AddStackToWorktree(stack)
Spec == Init /\ [][Next]_vars

\* the checkout of selections of stacks
InitBatch ==
    InitWith(ComposeLinks, {SettingsFile(JObject([model |-> JScalar("haiku")]))},
             { NoMdFile, MdFile(Text \o DEMARCATION \o Text \o <<NL, NL>>) })
NextBatch ==
    \E input \in BatchInputs :
        AddStacksToWorktree(input.mode, input.stacks, input.fault)
SpecBatch == InitBatch /\ [][NextBatch]_vars

\* composition into a worktree, removal of links, and cleanup
InitCleanup ==
    InitWith({NoLinks}, {NoSettingsFile},
             { NoMdFile, MdFile(Text \o DEMARCATION \o Text \o <<NL, NL>>) })
NextCleanup ==
    \/ \E stacks \in Selections :
          /\ stack_dirs = Stacks
          /\ AddStacksToWorktree("worktree", stacks, NoFault)
    \/ \E stack \in Stacks, input \in RemovalInputs : RemoveSymlinksWalking(stack, input)
    \/ \E input \in CleanupInputs : CleanupWorktree(input)
SpecCleanup == InitCleanup /\ [][NextCleanup]_vars

----------------------------------------------------------------------------
(* Properties.                                                             *)

NOps == Len(log)

\* the workspace before the first operation
start == hist[1]
\* the workspace before the k-th operation and after it
Before(k) == hist[k]
After(k) == hist[k + 1]
\* the workspace before the last operation
pre == hist[Len(hist) - 1]

\* the last two operations were op on the same stack
TwiceInARow(op) ==
    /\ NOps >= 2
    /\ log[NOps].op = op
    /\ log[NOps - 1].op = op
    /\ log[NOps].stack = log[NOps - 1].stack

\* C1: composing the same stack twice in a row (symlinks, settings, markdown
\* import) leaves the workspace after the second composition identical to the
\* workspace after the first: same links, same settings tree, same markdown.
C1_ApplyTwiceIdentical ==
    TwiceInARow("add_stack") => Workspace = pre

\* the parts of C1 that concern the links and the settings tree
C1_LinksAndSettingsIdentical ==
    TwiceInARow("add_stack") => links = pre.links /\ settings = pre.settings

----------------------------------------------------------------------------
(* Properties of the symlink overlay manager (SpecLinks).                  *)

\* the names of the symbolic links in .claude/<sub>
LinkNames(fs, sub) ==
    { tp[2] : tp \in { q \in TargetPaths : q[1] = sub /\ fs[q].kind = "link" } }

\* the paths the files of a stack are linked at
TargetsOf(stack) ==
    UNION { { <<sub, PrefixedFilename(stack, f)>> : f \in Exports(stack, sub) } :
                sub \in SubdirSet }

\* the link that apply creates for a file of a stack
LinkFor(stack, sub, leaf) == Symlink(Canonicalize(SourcePath(stack, sub, leaf)))

\* C2: create_symlinks_for_stack(stack) followed by
\* remove_stack_symlinks(stack.name) restores the set of link names in
\* .claude/agents and in .claude/commands to the set before the apply.
C2_ApplyRemoveRestoresLinkNames ==
    \A k \in 1..(NOps - 1) :
        ( /\ log[k].op = "create_symlinks"
          /\ log[k].ok
          /\ log[k + 1].op = "remove_symlinks"
          /\ log[k + 1].stack = log[k].stack )
        => \A sub \in SubdirSet :
              LinkNames(After(k + 1).links, sub) = LinkNames(Before(k).links, sub)

\* C3: when a prefixed target of the stack holds a regular file, apply fails,
\* the error names a path that held a regular file, and every regular file
\* is left as it was.
C3_ConflictLeavesFileUntouched ==
    \A k \in 1..NOps :
        log[k].op = "create_symlinks" =>
            LET before == Before(k).links
                after == After(k).links
                stack == log[k].stack
                files == { tp \in TargetsOf(stack) : before[tp].kind = "file" }
                dangling == { tp \in TargetsOf(stack) :
                                before[tp].kind = "link" /\ ~FileExists(before[tp].dest) }
            IN  /\ \A tp \in TargetPaths : before[tp].kind = "file" => after[tp] = before[tp]
                /\ files # {} => ~log[k].ok
                /\ (k = NOps /\ err.kind = "not_a_symlink") => err.path \in files
                /\ (k = NOps /\ files # {} /\ dangling = {}) =>
                        err.kind = "not_a_symlink" /\ err.path \in files

\* an apply met a regular file at one of its targets, failed naming it, and
\* the file is still there
C3_Witness ==
    /\ NOps >= 1
    /\ log[NOps].op = "create_symlinks"
    /\ err.kind = "not_a_symlink"
    /\ pre.links[err.path].kind = "file"
    /\ links[err.path].kind = "file"

C5_StaleLinkReplaced ==
    \A k \in 1..NOps :
        LET before == Before(k).links
            after == After(k).links
            stack == log[k].stack
        IN  ( /\ log[k].op = "create_symlinks"
              /\ \E sub \in SubdirSet : \E f \in Exports(stack, sub) :
                    LET e == before[<<sub, PrefixedFilename(stack, f)>>]
                    IN  e.kind = "link" /\ e # LinkFor(stack, sub, f)
              /\ \A tp \in TargetsOf(stack) : before[tp].kind # "file" )
            => /\ log[k].ok
               /\ \A sub \in SubdirSet : \A f \in Exports(stack, sub) :
                    after[<<sub, PrefixedFilename(stack, f)>>] = LinkFor(stack, sub, f)

----------------------------------------------------------------------------
(* Properties of the settings merger (SpecSettings).                       *)

\* the tree a merge starts from: the file's, or an empty object
TreeOf(file) == IF file.exists THEN file.val ELSE JObject(EmptyMap)

Elems(a) == { a[i] : i \in 1..Len(a) }
Occurrences(a, x) == Cardinality({ i \in 1..Len(a) : a[i] = x })

\* the items of a, in order, that are not in seen and not earlier in a
RECURSIVE NewFrom(_, _)
NewFrom(a, seen) ==
    IF a = <<>> THEN <<>>
    ELSE IF Head(a) \in seen THEN NewFrom(Tail(a), seen)
    ELSE <<Head(a)>> \o NewFrom(Tail(a), seen \cup {Head(a)})

\* the k-th and the next operation merged arrays A and B into an array T
ArraysMerged(k) ==
    /\ k + 1 <= NOps
    /\ log[k].op = "merge_settings"
    /\ log[k + 1].op = "merge_settings"
    /\ Before(k).settings.exists
    /\ Before(k).settings.val.t = "array"
    /\ log[k].src.val.t = "array"
    /\ log[k + 1].src.val.t = "array"

\* empty workspace, stack linting then stack testing: allow is
\* ["npm run lint", "pytest"]
LintingThenTesting ==
    ( /\ NOps = 2
      /\ ~start.settings.exists
      /\ log[1].src = SettingsFile(LintingSettings)
      /\ log[2].src = SettingsFile(TestingSettings) )
    => settings = SettingsFile(AllowOnly(<<Lint, Pytest>>))

\* C7 as claimed: merging arrays A and then B into array T yields an array
\* that holds every element of T, A and B exactly once, T's first, then the
\* elements new from A, then those new from B.
C7_UnionEachAtMostOnce ==
    /\ \A k \in 1..NOps :
         ArraysMerged(k) =>
            LET T == Before(k).settings.val.a
                A == log[k].src.val.a
                B == log[k + 1].src.val.a
                R == After(k + 1).settings.val.a
            IN  /\ \A x \in Elems(T) \cup Elems(A) \cup Elems(B) : Occurrences(R, x) = 1
                /\ R = NewFrom(T, {}) \o NewFrom(A, Elems(T))
                          \o NewFrom(B, Elems(T) \cup Elems(A))
    /\ LintingThenTesting

\* C7 amended: the result is T as it was (an element T holds twice is kept
\* twice), then the elements new from A once each, then those new from B
\* once each; so every element of T, A and B is in the result, and exactly
\* once when T holds it at most once.
C7_MergeUnionLaw ==
    /\ \A k \in 1..NOps :
         ArraysMerged(k) =>
            LET T == Before(k).settings.val.a
                A == log[k].src.val.a
                B == log[k + 1].src.val.a
                R == After(k + 1).settings.val.a
            IN  /\ R = T \o NewFrom(A, Elems(T)) \o NewFrom(B, Elems(T) \cup Elems(A))
                /\ \A x \in Elems(T) \cup Elems(A) \cup Elems(B) :
                        Occurrences(R, x) = IF x \in Elems(T) THEN Occurrences(T, x) ELSE 1
    /\ LintingThenTesting

\* arrays with common elements were merged into an array that held an
\* element twice
C7_Witness ==
    /\ ArraysMerged(1)
    /\ start.settings.val.a = <<Lint, Lint>>
    /\ log[1].src.val.a = <<Lint, Pytest>>
    /\ log[2].src.val.a = <<Pytest, Ruff, Pytest>>
    /\ settings.val.a = <<Lint, Lint, Pytest, Ruff>>

\* the k-th operation merged an object into an object
ObjectsMerged(k) ==
    /\ k <= NOps
    /\ log[k].op = "merge_settings"
    /\ TreeOf(Before(k).settings).t = "object"
    /\ log[k].src.val.t = "object"

\* C8: merging object S into object T keeps every key that only T has with
\* its value, inserts every key that only S has with S's value, and stores
\* under every common key the merge of the two values; no key of T is lost.
C8_ObjectMergeKeyWise ==
    \A k \in 1..NOps :
        ObjectsMerged(k) =>
            LET T == TreeOf(Before(k).settings).m
                S == log[k].src.val.m
                R == After(k).settings.val
            IN  /\ R.t = "object"
                /\ DOMAIN R.m = (DOMAIN T) \cup (DOMAIN S)
                /\ \A key \in (DOMAIN T) \ (DOMAIN S) : R.m[key] = T[key]
                /\ \A key \in (DOMAIN S) \ (DOMAIN T) : R.m[key] = S[key]
                /\ \A key \in (DOMAIN S) \cap (DOMAIN T) :
                      /\ R.m[key] = deep_merge(T[key], S[key])
                      /\ (T[key].t = "object" /\ S[key].t = "object")
                            => /\ R.m[key].t = "object"
                               /\ DOMAIN T[key].m \subseteq DOMAIN R.m[key].m
                               /\ DOMAIN S[key].m \subseteq DOMAIN R.m[key].m

\* an object with a key of its own, a key only the source has and a common
\* key has been merged
C8_Witness ==
    \E k \in 1..NOps :
        /\ ObjectsMerged(k)
        /\ LET T == TreeOf(Before(k).settings).m
               S == log[k].src.val.m
           IN  /\ (DOMAIN T) \ (DOMAIN S) # {}
               /\ (DOMAIN S) \ (DOMAIN T) # {}
               /\ \E key \in (DOMAIN S) \cap (DOMAIN T) :
                     T[key].t = "object" /\ S[key].t = "object"
               /\ \A key \in DOMAIN T : key \in DOMAIN After(k).settings.val.m

\* neither the object arm nor the array arm of the merge applies to the pair
Replaces(t, s) ==
    /\ ~(t.t = "object" /\ s.t = "object")
    /\ ~(t.t = "array" /\ s.t = "array")

\* C9: where the two values are scalars or of different types the source's
\* value replaces the target's, at the top and under a common key; so of two
\* stacks merged one after the other the later one's value stays.
C9_SourceWinsLastApplied ==
    /\ \A k \in 1..NOps :
         log[k].op = "merge_settings" =>
            LET T == TreeOf(Before(k).settings)
                S == log[k].src.val
                R == After(k).settings.val
            IN  /\ Replaces(T, S) => R = S
                /\ (T.t = "object" /\ S.t = "object") =>
                      \A key \in (DOMAIN S.m) \cap (DOMAIN T.m) :
                          Replaces(T.m[key], S.m[key]) => R.m[key] = S.m[key]
    /\ \A k \in 1..(NOps - 1) :
         ( /\ log[k].op = "merge_settings"
           /\ log[k + 1].op = "merge_settings"
           /\ TreeOf(Before(k).settings).t = "object"
           /\ log[k].src.val.t = "object"
           /\ log[k + 1].src.val.t = "object" )
         => LET A == log[k].src.val.m
                B == log[k + 1].src.val.m
                R == After(k + 1).settings.val.m
            IN  \A key \in (DOMAIN A) \cap (DOMAIN B) :
                    Replaces(A[key], B[key]) => R[key] = B[key]

\* two stacks that set the same scalar key were merged, the later one's value
\* is in the file, and the opposite order would have left the other value
C9_Witness ==
    /\ NOps = 2
    /\ log[1].src.val.t = "object"
    /\ log[2].src.val.t = "object"
    /\ \E key \in (DOMAIN log[1].src.val.m) \cap (DOMAIN log[2].src.val.m) :
          /\ log[1].src.val.m[key].t = "scalar"
          /\ log[2].src.val.m[key].t = "scalar"
          /\ log[1].src.val.m[key] # log[2].src.val.m[key]
          /\ settings.val.m[key] = log[2].src.val.m[key]
    /\ merge_stack_settings(merge_stack_settings(start.settings, log[2].src), log[1].src)
          # settings

\* an array lies in the value, under a key `permissions` when under is TRUE
\* or below a key `permissions` of the value
RECURSIVE ArrayUnderPermissions(_, _)
ArrayUnderPermissions(v, under) ==
    \/ v.t = "array" /\ under
    \/ /\ v.t = "object"
       /\ \E key \in DOMAIN v.m :
             ArrayUnderPermissions(v.m[key], under \/ key = "permissions")

RECURSIVE NoContainersMeet(_, _)
NoContainersMeet(t, s) ==
    IF t.t = "object" /\ s.t = "object"
    THEN \A key \in (DOMAIN t.m) \cap (DOMAIN s.m) :
            IF key = "permissions"
            THEN NoContainersMeet(t.m[key], s.m[key])
            ELSE Replaces(t.m[key], s.m[key])
    ELSE Replaces(t, s)

----------------------------------------------------------------------------
(* Properties of the markdown import manager (SpecMd).                     *)

\* the number of lines of the file that are the sentinel, exactly and up to
\* surrounding blanks
SentinelLines(file) ==
    LET ls == StrLines(file.text)
    IN  Cardinality({ i \in 1..Len(ls) : ls[i] = DEMARCATION })
TrimmedSentinelLines(file) ==
    LET ls == StrLines(file.text)
    IN  Cardinality({ i \in 1..Len(ls) : Trim(ls[i]) = DEMARCATION })

OnlyDemarcatedApplies == \A k \in 1..NOps : log[k].op = "add_import_demarcated"

\* C10: from a markdown file without a `----` line (or no file), any number
\* of demarcated applies leaves at most one line equal to `----` in the file.
C10_AtMostOneSentinel ==
    OnlyDemarcatedApplies =>
        /\ SentinelLines(start.md) = 0 => SentinelLines(md) <= 1
        /\ TrimmedSentinelLines(start.md) = 0 => TrimmedSentinelLines(md) <= 1

\* three stacks were applied to a file that had no sentinel: one sentinel
\* line, three references
C10_Witness ==
    /\ NOps = 3
    /\ OnlyDemarcatedApplies
    /\ start.md.exists
    /\ ~StrContains(start.md.text, DEMARCATION)
    /\ SentinelLines(md) = 1
    /\ \A s \in Stacks : StrContains(md.text, SeeLine(ImportLine(s)))

\* the index of the first line that is the sentinel up to surrounding blanks
\* (0: none)
SentinelIndex(ls) ==
    IF \E i \in 1..Len(ls) : Trim(ls[i]) = DEMARCATION
    THEN CHOOSE i \in 1..Len(ls) :
            /\ Trim(ls[i]) = DEMARCATION
            /\ \A j \in 1..(i - 1) : Trim(ls[j]) # DEMARCATION
    ELSE 0

\* the operations were N >= 1 demarcated applies, of stacks the file did not
\* refer to at the start, and then one cleanup
AppliesThenCleanup ==
    /\ NOps >= 2
    /\ log[NOps].op = "cleanup_imports"
    /\ \A k \in 1..(NOps - 1) :
          /\ log[k].op = "add_import_demarcated"
          /\ ~StrContains(start.md.text, ImportLine(log[k].stack))

\* the file is the content c (up to blanks around it) and then the sentinel
\* as its last line
ContentThenSentinel(file, c) ==
    LET ls == StrLines(file.text)
    IN  /\ ls # <<>>
        /\ Trim(Last(ls)) = DEMARCATION
        /\ Trim(JoinLines(SubSeq(ls, 1, Len(ls) - 1))) = Trim(c)

\* C11: for a file that exists and has no sentinel line, N >= 1 demarcated
\* applies followed by cleanup_demarcated_imports leave a file that is the
\* content it had before the first apply followed by the sentinel line, with
\* nothing after the sentinel.
C11_CleanupRestoresContentPlusSentinel ==
    ( /\ AppliesThenCleanup
      /\ start.md.exists
      /\ TrimmedSentinelLines(start.md) = 0 )
    => ContentThenSentinel(md, start.md.text)

\* C11 for the files in which `----` does not occur at all
C11_HoldsWithoutEmbeddedDashes ==
    ( /\ AppliesThenCleanup
      /\ start.md.exists
      /\ ~StrContains(start.md.text, DEMARCATION) )
    => ContentThenSentinel(md, start.md.text)

\* the k-th operation was a demarcated apply, for a stack the file does not
\* refer to, on a file with exactly one sentinel line
AppliedBelowSentinel(k) ==
    /\ k <= NOps
    /\ log[k].op = "add_import_demarcated"
    /\ Before(k).md.exists
    /\ TrimmedSentinelLines(Before(k).md) = 1
    /\ ~StrContains(Before(k).md.text, ImportLine(log[k].stack))

\* C12: on a file that has its sentinel line, a demarcated apply for a stack
\* not yet referenced inserts a blank line and the line `See <import-ref>.`
\* directly below the sentinel; the lines above the sentinel and the lines
\* below it are the lines of the file, unchanged and in their order.
C12_InsertBelowSentinelFrame ==
    \A k \in 1..NOps :
        AppliedBelowSentinel(k) =>
            LET ls == StrLines(Before(k).md.text)
                at == SentinelIndex(ls)
                see == SeeLine(ImportLine(log[k].stack))
                out == StrLines(After(k).md.text)
            IN  /\ After(k).md.text =
                      JoinLines(SubSeq(ls, 1, at) \o <<<<>>, see>> \o SubSeq(ls, at + 1, Len(ls)))
                /\ \A i \in 1..at : out[i] = ls[i]
                /\ out[at + 1] = <<>>
                /\ out[at + 2] = see
                /\ \A i \in (at + 3)..Len(out) : out[i] = ls[i - 2]
                /\ Len(out) \in {Len(ls) + 2, Len(ls) + 1}
                /\ Len(out) = Len(ls) + 1 => Last(ls) = <<>>

\* a reference was inserted below a sentinel that has lines above it and
\* references below it
C12_Witness ==
    \E k \in 1..NOps :
        /\ AppliedBelowSentinel(k)
        /\ LET ls == StrLines(Before(k).md.text)
               at == SentinelIndex(ls)
           IN  /\ at > 1
               /\ at + 2 <= Len(ls)
               /\ \E s \in Stacks : ls[at + 2] = SeeLine(ImportLine(s))
               /\ StrLines(After(k).md.text)[at + 4] = ls[at + 2]

\* str::find: the index of the first occurrence of pat in content (0: none)
IndexOf(content, pat) ==
    LET Hits == { i \in 1..(Len(content) - Len(pat) + 1) :
                    SubSeq(content, i, i + Len(pat) - 1) = pat }
    IN  IF Hits = {} THEN 0 ELSE CHOOSE i \in Hits : \A j \in Hits : i <= j

\* the file was absent, then two different stacks were applied in
\* demarcated mode
AlphaThenBeta ==
    /\ NOps = 2
    /\ ~start.md.exists
    /\ log[1].op = "add_import_demarcated"
    /\ log[2].op = "add_import_demarcated"
    /\ log[1].stack # log[2].stack

\* C13 as claimed: with the file absent, apply(alpha) then apply(beta) in
\* demarcated mode leave one sentinel line, and the reference for beta is
\* after the reference for alpha.
C13_BetaAfterAlpha ==
    AlphaThenBeta =>
        LET alpha == SeeLine(ImportLine(log[1].stack))
            beta == SeeLine(ImportLine(log[2].stack))
        IN  /\ SentinelLines(md) = 1
            /\ IndexOf(md.text, alpha) > 0
            /\ IndexOf(md.text, beta) > IndexOf(md.text, alpha)

\* C13 amended: one sentinel line, both references below it, and the
\* reference for beta, applied later, is before the reference for alpha:
\* directly below the sentinel.
C13_BetaDirectlyBelowSentinel ==
    AlphaThenBeta =>
        LET alpha == SeeLine(ImportLine(log[1].stack))
            beta == SeeLine(ImportLine(log[2].stack))
            ls == StrLines(md.text)
            at == SentinelIndex(ls)
        IN  /\ SentinelLines(md) = 1
            /\ IndexOf(md.text, DEMARCATION) > 0
            /\ IndexOf(md.text, DEMARCATION) < IndexOf(md.text, beta)
            /\ IndexOf(md.text, beta) < IndexOf(md.text, alpha)
            /\ ls[at + 2] = beta
            /\ ls[at + 4] = alpha

\* stack a and then stack c were applied to an absent file
C13_Witness ==
    /\ AlphaThenBeta
    /\ log[1].stack = StackA
    /\ log[2].stack = StackC
    /\ StrContains(md.text, SeeLine(ImportLine(StackA)))
    /\ StrContains(md.text, SeeLine(ImportLine(StackC)))

\* the number of occurrences of pat in content
Count(content, pat) ==
    Cardinality({ i \in 1..(Len(content) - Len(pat) + 1) :
                    SubSeq(content, i, i + Len(pat) - 1) = pat })

\* C14: an apply, in either mode, for a stack whose import string occurs in
\* the file leaves the file as it is; and from a file in which every stack's
\* import string occurs at most once, after any sequence of applies every
\* stack's import string occurs at most once.
C14_ImportAtMostOnce ==
    /\ \A k \in 1..NOps :
          ( /\ log[k].op \in {"add_import", "add_import_demarcated"}
            /\ Before(k).md.exists
            /\ StrContains(Before(k).md.text, ImportLine(log[k].stack)) )
          => After(k).md = Before(k).md
    /\ ( /\ \A k \in 1..NOps : log[k].op \in {"add_import", "add_import_demarcated"}
         /\ \A s \in Stacks : Count(start.md.text, ImportLine(s)) <= 1 )
       => \A s \in Stacks : Count(md.text, ImportLine(s)) <= 1

\* the first half of C14: an apply for a stack already referenced is a no-op
C14_NoOpWhenPresent ==
    \A k \in 1..NOps :
        ( /\ log[k].op \in {"add_import", "add_import_demarcated"}
          /\ Before(k).md.exists
          /\ StrContains(Before(k).md.text, ImportLine(log[k].stack)) )
        => After(k).md = Before(k).md

\* C15: cleanup_demarcated_imports on a file that has no sentinel line, or
\* does not exist, changes nothing, and a second cleanup right after a
\* cleanup changes nothing.
C15_CleanupIdempotent ==
    /\ \A k \in 1..NOps :
          ( /\ log[k].op = "cleanup_imports"
            /\ (~Before(k).md.exists \/ TrimmedSentinelLines(Before(k).md) = 0) )
          => After(k).md = Before(k).md
    /\ \A k \in 1..(NOps - 1) :
          (log[k].op = "cleanup_imports" /\ log[k + 1].op = "cleanup_imports")
          => After(k + 1).md = After(k).md

\* C15 for the files in which `----` occurs only as a line of its own
C15_HoldsWithoutEmbeddedDashes ==
    /\ \A k \in 1..NOps :
          ( /\ log[k].op = "cleanup_imports"
            /\ ~StrContains(Before(k).md.text, DEMARCATION) )
          => After(k).md = Before(k).md
    /\ \A k \in 1..(NOps - 1) :
          ( /\ log[k].op = "cleanup_imports"
            /\ log[k + 1].op = "cleanup_imports"
            /\ TrimmedSentinelLines(Before(k).md) >= 1 )
          => After(k + 1).md = After(k).md

----------------------------------------------------------------------------
(* Properties of the markdown import manager without demarcation           *)
(* (SpecMdLegacy).                                                         *)

\* the index of the last line of the first run of lines that start with
\* "@stacks/" (0: no such line)
RECURSIVE RunEnd(_, _)
RunEnd(ls, i) ==
    IF i + 1 <= Len(ls) /\ StartsWith(ls[i + 1], STACKS_PREFIX)
    THEN RunEnd(ls, i + 1)
    ELSE i

FirstImportRunEnd(ls) ==
    IF \E i \in 1..Len(ls) : StartsWith(ls[i], STACKS_PREFIX)
    THEN RunEnd(ls, CHOOSE i \in 1..Len(ls) :
                        /\ StartsWith(ls[i], STACKS_PREFIX)
                        /\ \A j \in 1..(i - 1) : ~StartsWith(ls[j], STACKS_PREFIX))
    ELSE 0

\* ls with x put in after its p-th line
InsertAfter(ls, p, x) == SubSeq(ls, 1, p) \o <<x>> \o SubSeq(ls, p + 1, Len(ls))

\* the k-th operation was a legacy apply, for a stack the file does not
\* refer to, on a file that has a line starting with "@stacks/"
AppliedAfterRun(k) ==
    /\ k <= NOps
    /\ log[k].op = "add_import"
    /\ Before(k).md.exists
    /\ ~StrContains(Before(k).md.text, ImportLine(log[k].stack))
    /\ FirstImportRunEnd(StrLines(Before(k).md.text)) > 0

\* C16: a legacy apply on a file with a run of lines starting with
\* `@stacks/` yields the lines of the file, each once and in their order,
\* and the new reference as one more line after that run (directly after
\* it, or after the blank lines that follow it).
C16_LegacyInsertAfterRun ==
    \A k \in 1..NOps :
        AppliedAfterRun(k) =>
            LET ls == StrLines(Before(k).md.text)
                e == FirstImportRunEnd(ls)
                import_line == ImportLine(log[k].stack)
            IN  \E p \in e..Len(ls) :
                    /\ \A i \in (e + 1)..p : Trim(ls[i]) = <<>>
                    /\ After(k).md.text = JoinLines(InsertAfter(ls, p, import_line))

----------------------------------------------------------------------------
(* Properties of the permission scope generator (SpecPerm).                *)

\* the k-th operation generated for two directories that both resolve
Generated(k) ==
    /\ k <= NOps
    /\ log[k].op = "apply_to_local_settings"
    /\ CanonicalizeDir(log[k].src.env, log[k].src.generator.main_directory).ok
    /\ CanonicalizeDir(log[k].src.env, log[k].src.generator.feature_directory).ok

MainOf(k) == CanonicalizeDir(log[k].src.env, log[k].src.generator.main_directory).path
FeatureOf(k) == CanonicalizeDir(log[k].src.env, log[k].src.generator.feature_directory).path
ConfigOf(k) == generate_permission_config(log[k].src.generator, log[k].src.env).config

\* C17: for a main and a feature directory that both resolve, the deny list
\* of the generated configuration holds the write, edit, multi-edit and
\* delete-file rules on the main directory, and no rule of the deny list
\* contains the path of the feature directory.
C17_DenyMainNeverFeature ==
    \A k \in 1..NOps :
        Generated(k) =>
            LET r == generate_permission_config(log[k].src.generator, log[k].src.env)
                deny == r.config.m.permissions.m.deny.a
            IN  /\ r.ok
                /\ \A verb \in {"Write(", "Edit(", "MultiEdit(", "DeleteFile("} :
                      VecContains(deny, JScalar(<<verb>> \o MainOf(k) \o <<"/*)">>))
                /\ \A i \in 1..Len(deny) : ~StrContains(deny[i].s, FeatureOf(k))
                /\ log[k].ok => After(k).settings.val.m.permissions.m.deny.a = deny

\* a configuration was generated and written for a feature directory whose
\* path starts with the path of the main directory
C17_Witness ==
    /\ NOps >= 1
    /\ Generated(NOps)
    /\ log[NOps].ok
    /\ StartsWith(FeatureOf(NOps), MainOf(NOps))
    /\ MainOf(NOps) = <<"/", "w", "/", "p", "-", "f">>
    /\ VecContains(settings.val.m.permissions.m.deny.a,
                   JScalar(<<"Write(">> \o MainOf(NOps) \o <<"/*)">>))

\* C18: after apply_to_local_settings succeeds, permissions.allow and
\* permissions.deny of the file are the generated arrays, whatever the file
\* held before; and generating again for the same directories leaves the
\* file as the first generation left it.
C18_PermissionsReplacedNotAccumulated ==
    /\ \A k \in 1..NOps :
          (log[k].op = "apply_to_local_settings" /\ log[k].ok) =>
              LET R == After(k).settings.val
                  config == ConfigOf(k)
              IN  /\ After(k).settings.exists
                  /\ R.t = "object"
                  /\ "permissions" \in DOMAIN R.m
                  /\ R.m.permissions.t = "object"
                  /\ {"allow", "deny"} \subseteq DOMAIN R.m.permissions.m
                  /\ R.m.permissions.m.allow = config.m.permissions.m.allow
                  /\ R.m.permissions.m.deny = config.m.permissions.m.deny
    /\ \A j \in 1..NOps : \A k \in 1..NOps :
          ( /\ j < k
            /\ \A i \in j..k :
                  /\ log[i].op = "apply_to_local_settings"
                  /\ log[i].ok
                  /\ log[i].src = log[j].src )
          => After(k).settings = After(j).settings

\* the permissions were generated twice for the same directories into a file
\* that held other rules, and the file holds the generated rules only
C18_Witness ==
    /\ NOps = 2
    /\ log[1].op = "apply_to_local_settings"
    /\ log[1].ok
    /\ log[2].ok
    /\ log[2].src = log[1].src
    /\ start.settings.exists
    /\ start.settings.val.t = "object"
    /\ "permissions" \in DOMAIN start.settings.val.m
    /\ start.settings.val.m.permissions.t = "object"
    /\ VecContains(start.settings.val.m.permissions.m.allow.a, StaleAllow)
    /\ ~VecContains(settings.val.m.permissions.m.allow.a, StaleAllow)
    /\ Len(settings.val.m.permissions.m.allow.a) = 15
    /\ Len(settings.val.m.permissions.m.deny.a) = 7

\* the steps of the calls that the k-th operation made
StepsOf(k) == { calls[k][i].step : i \in 1..Len(calls[k]) }

\* the k-th operation was an apply for a main or a feature directory that
\* does not resolve
Unresolvable(k) ==
    /\ k <= NOps
    /\ log[k].op = "apply_to_local_settings"
    /\ ~Generated(k)

\* C26: when the main or the feature directory does not resolve, generate
\* fails, and apply_to_local_settings returns that error without a call on
\* the settings path: the file is not looked for, not read and not written,
\* its parent directory is not created, and the file is as it was.
C26_UnresolvableLeavesSettingsUntouched ==
    \A k \in 1..NOps :
        Unresolvable(k) =>
            LET r == generate_permission_config(log[k].src.generator, log[k].src.env)
            IN  /\ ~r.ok
                /\ r.err \in {"resolve_main", "resolve_feature"}
                /\ ~log[k].ok
                /\ k = NOps => err.kind = r.err
                /\ After(k).settings = Before(k).settings
                /\ StepsOf(k) \subseteq {"canonicalize_main", "canonicalize_feature"}
                /\ ~Last(calls[k]).ok

\* the feature directory did not resolve; the settings file, absent or not
\* JSON, was not touched and the error is the one of generate
C26_Witness ==
    /\ NOps >= 1
    /\ Unresolvable(NOps)
    /\ err.kind = "resolve_feature"
    /\ (~settings.exists \/ settings.val.t = "invalid")
    /\ settings = pre.settings
    /\ calls[NOps] = <<Call(<<>>, "canonicalize_main", TRUE), Call(<<>>, "canonicalize_feature", FALSE)>>

----------------------------------------------------------------------------
(* Properties of the capability requirement validator (SpecMcp).           *)

LastValidated == NOps >= 1 /\ log[NOps].op = "validate_mcp_servers"

\* the names `claude mcp list` reported: the first word of every line that
\* is not blank and does not start with "No servers"; none when it exited
\* with a nonzero status
InstalledNames(outcome) ==
    IF ~outcome.success THEN {}
    ELSE LET ls == StrLines(outcome.stdout)
         IN  { FirstWord(ls[i]) :
                 i \in { j \in 1..Len(ls) :
                           /\ Trim(ls[j]) # <<>>
                           /\ ~StartsWith(ls[j], <<"No", SP, "servers">>) } }

\* s is t without the elements at the indexes outside keep, in t's order
IsSelection(s, t, keep) ==
    /\ Len(s) = Cardinality(keep)
    /\ \E f \in [1..Len(s) -> keep] :
          /\ \A i \in 1..Len(s) : \A j \in 1..Len(s) : i < j => f[i] < f[j]
          /\ \A i \in 1..Len(s) : s[i] = t[f[i]]

\* the integrations the settings file requires
RequiredOf(file) == extract_mcp_servers_from_settings(load_merged_settings(file).settings)

\* C20: when the settings load and the listing command runs, validate
\* succeeds and returns the required integrations whose name the listing
\* did not report, in the order in which they were required; when the
\* command exits with a nonzero status, it returns all of them.
C20_MissingRequiredInOrder ==
    LastValidated =>
        LET outcome == log[NOps].src
            required == RequiredOf(settings)
            installed == InstalledNames(outcome)
        IN  (load_merged_settings(settings).ok /\ outcome.spawned) =>
                /\ log[NOps].ok
                /\ IsSelection(returned, required,
                               { i \in 1..Len(required) : required[i].name \notin installed })
                /\ \A i \in 1..Len(returned) : returned[i].name \notin installed
                /\ ~outcome.success => returned = required

\* four integrations were required, one of them was reported installed, and
\* the three others were returned
C20_Witness ==
    /\ LastValidated
    /\ log[NOps].ok
    /\ log[NOps].src.success
    /\ Len(RequiredOf(settings)) = 4
    /\ Len(returned) = 3
    /\ \E i \in 1..4 : RequiredOf(settings)[i].name \in InstalledNames(log[NOps].src)

\* the listing command exited with a nonzero status and every required
\* integration was returned
C20_NonzeroExitWitness ==
    /\ LastValidated
    /\ log[NOps].ok
    /\ ~log[NOps].src.success
    /\ Len(returned) >= 2
    /\ returned = RequiredOf(settings)

\* the names declared under mcp.servers of the settings file, as the names
\* their requirements carry
ExplicitNames(file) ==
    LET merged == load_merged_settings(file).settings
        mcp_config == JsonGet(merged, "mcp")
        servers == IF mcp_config = None THEN None ELSE JsonGet(mcp_config[1], "servers")
    IN  IF servers # None /\ servers[1].t = "object"
        THEN { <<key>> : key \in DOMAIN servers[1].m }
        ELSE {}

\* the explicit entry declared under the name
ExplicitEntry(file, name) ==
    parse_mcp_server_config(
        name[1], load_merged_settings(file).settings.m.mcp.m.servers.m[name[1]])

\* the names that the permission rules of the settings file imply
HeuristicNames(file) ==
    LET merged == load_merged_settings(file).settings
        permissions == JsonGet(merged, "permissions")
        allow == IF permissions = None THEN None ELSE JsonGet(permissions[1], "allow")
    IN  IF allow # None /\ allow[1].t = "array"
        THEN { extract_mcp_from_permission(allow[1].a[i].s)[1].name :
                 i \in { j \in 1..Len(allow[1].a) :
                           /\ allow[1].a[j].t = "scalar"
                           /\ extract_mcp_from_permission(allow[1].a[j].s) # None } }
        ELSE {}

\* the requirements of the list that carry the name
Named(servers, name) == { i \in 1..Len(servers) : servers[i].name = name }

\* C21: a name declared under mcp.servers and also implied by a permission
\* rule is required exactly once, with the explicit entry's transport,
\* command and url; so a validation that finds nothing installed returns it
\* once.
C21_ExplicitEntryRequiredOnce ==
    (LastValidated /\ log[NOps].ok) =>
        \A name \in ExplicitNames(settings) \cap HeuristicNames(settings) :
            LET required == RequiredOf(settings)
                explicit == ExplicitEntry(settings, name)
            IN  /\ Cardinality(Named(required, name)) = 1
                /\ \A i \in Named(required, name) :
                      /\ required[i].transport = explicit.transport
                      /\ required[i].command = explicit.command
                      /\ required[i].url = explicit.url
                /\ InstalledNames(log[NOps].src) = {}
                      => Cardinality(Named(returned, name)) = 1

\* what the code does for such a name: the explicit entry is required first
\* and unchanged, and the requirement implied by the rule is required as well
C21_ExplicitKeptHeuristicAdded ==
    \A name \in ExplicitNames(settings) \cap HeuristicNames(settings) :
        LET required == RequiredOf(settings)
            first == CHOOSE i \in Named(required, name) :
                        \A j \in Named(required, name) : i <= j
        IN  /\ Cardinality(Named(required, name)) >= 2
            /\ required[first] = ExplicitEntry(settings, name)

----------------------------------------------------------------------------
(* Properties of the checkout of a selection (SpecBatch).                  *)

\* the stacks for which the k-th operation called a component
ProcessedBy(k) == { calls[k][i].stack : i \in 1..Len(calls[k]) }

\* the k-th operation was a batch in which the composition of item i failed
ItemFailed(k, i) ==
    /\ log[k].op = "add_stacks"
    /\ i \in 1..Len(log[k].src.stacks)
    /\ \E n \in 1..Len(calls[k]) :
          calls[k][n].stack = log[k].src.stacks[i] /\ ~calls[k][n].ok

\* C22: a failure while one stack of a selection is processed does not end
\* the batch: every stack of the selection is processed, the later ones
\* included.
C22_BatchContinuesAfterFailure ==
    \A k \in 1..NOps :
        log[k].op = "add_stacks" =>
            \A i \in 1..Len(log[k].src.stacks) : log[k].src.stacks[i] \in ProcessedBy(k)

\* what the code does: the first failure ends the batch; no component is
\* called for a later stack and the workspace is what the failed item left
C22_FirstFailureEndsBatch ==
    \A k \in 1..NOps :
        \A i \in 1..Len(log[k].src.stacks) :
            ItemFailed(k, i) =>
                /\ ~log[k].ok
                /\ \A j \in (i + 1)..Len(log[k].src.stacks) :
                      log[k].src.stacks[j] \notin ProcessedBy(k)
                /\ ~Last(calls[k]).ok
                /\ Last(calls[k]).stack = log[k].src.stacks[i]

\* the k-th operation was a checkout that failed and the next one was the
\* checkout of the same selection, in the same mode, that ran to completion
FailedThenRetried(k) ==
    /\ k + 1 <= NOps
    /\ log[k].op = "add_stacks"
    /\ ~log[k].ok
    /\ log[k + 1].op = "add_stacks"
    /\ log[k + 1].ok
    /\ log[k + 1].src.mode = log[k].src.mode
    /\ log[k + 1].src.stacks = log[k].src.stacks

\* the composition of the selection of the k-th operation from the workspace
\* it started in, when no call fails for a reason outside the workspace
Uninterrupted(k) ==
    StacksLoop(log[k].src.mode, [ws |-> Before(k), err |-> NoError, made |-> <<>>],
               walk, log[k].src.stacks, 1, NoFault)

\* C24: when the composition of a stack fails at some step and leaves
\* partial state, composing the same stack again to completion leaves the
\* workspace (links, settings tree, markdown file) that one uninterrupted
\* composition from the original state leaves.
C24_RetryEqualsUninterrupted ==
    \A k \in 1..NOps :
        FailedThenRetried(k) =>
            /\ Uninterrupted(k).err.kind = "none"
            /\ After(k + 1) = Uninterrupted(k).ws

\* a composition failed at the import step, after the links were created and
\* the settings merged, and was run again to completion
C24_Witness ==
    /\ NOps = 2
    /\ FailedThenRetried(1)
    /\ log[1].src.stacks = <<StackA>>
    /\ Last(calls[1]) = Call(StackA, "markdown", FALSE)
    /\ After(1).links # start.links
    /\ After(1).settings # start.settings
    /\ After(1).md = start.md
    /\ md # start.md
    /\ settings = After(1).settings

\* a composition failed at a symlink call after one link had been created
C24_PartialLinksWitness ==
    /\ NOps = 2
    /\ FailedThenRetried(1)
    /\ Last(calls[1]) = Call(StackA, "symlinks", FALSE)
    /\ After(1).links # start.links
    /\ links # After(1).links
    /\ After(1).settings = start.settings

\* the steps of the composition of one stack, in the order of the loop body
StepOrder == <<"subtree", "symlinks", "settings", "markdown">>

\* the calls are made stack by stack in the order of the selection, and for
\* each stack in the order of the steps; only the last call can have failed
InOrderUntilFailure(made, stacks) ==
    /\ Len(made) <= Len(StepOrder) * Len(stacks)
    /\ \A n \in 1..Len(made) :
          /\ made[n].stack = stacks[((n - 1) \div Len(StepOrder)) + 1]
          /\ made[n].step = StepOrder[((n - 1) % Len(StepOrder)) + 1]
          /\ n < Len(made) => made[n].ok

\* C25: a checkout processes the stacks of the selection one at a time, in
\* order, and for each stack calls the symlink overlay, then the settings
\* merger, then the markdown import; no step of a stack starts before the
\* steps of the stack before it have all returned Ok, and after a step has
\* failed no later step runs and the file of a later step is as it was.
C25_OneStackAtATimeInStepOrder ==
    \A k \in 1..NOps :
        log[k].op = "add_stacks" =>
            LET made == calls[k]
                stacks == log[k].src.stacks
                Ran(step) == \E n \in 1..Len(made) : made[n].step = step
            IN  /\ InOrderUntilFailure(made, stacks)
                /\ log[k].ok <=> (Len(made) = Len(StepOrder) * Len(stacks) /\ Last(made).ok)
                /\ ~Ran("symlinks") => After(k).links = Before(k).links
                /\ ~Ran("settings") => After(k).settings = Before(k).settings
                /\ ~Ran("markdown") => After(k).md = Before(k).md
                /\ \A n \in 1..Len(made) :
                      (made[n].step = "settings" /\ ~made[n].ok /\ Len(stacks) = 1)
                          => After(k).md = Before(k).md

\* a checkout of two stacks stopped at the settings step of the first one,
\* and the same checkout then ran all steps of both stacks in order
C25_Witness ==
    /\ NOps = 2
    /\ log[1].src.stacks = <<StackA, StackAB>>
    /\ log[2].src.stacks = <<StackA, StackAB>>
    /\ calls[1] = << Call(StackA, "subtree", TRUE), Call(StackA, "symlinks", TRUE),
                     Call(StackA, "settings", FALSE) >>
    /\ log[2].ok
    /\ Len(calls[2]) = 8
    /\ calls[2][4] = Call(StackA, "markdown", TRUE)
    /\ calls[2][5] = Call(StackAB, "subtree", TRUE)

----------------------------------------------------------------------------
(* Properties of the removal of links and of the cleanup (SpecCleanup).    *)

\* the links in .claude/agents and .claude/commands whose file name starts
\* with "<stack_name>_"
PrefixedLinks(fs, stack_name) ==
    { tp \in TargetPaths : fs[tp].kind = "link" /\ StartsWith(tp[2], stack_name \o <<"_">>) }

\* C23: after remove_stack_symlinks(stack_name), of the links whose file name
\* starts with "<stack_name>_" only those that could not be deleted are still
\* there: a failure to delete one link does not keep the others.
C23_RemovalGoesOnAfterFailure ==
    \A k \in 1..NOps :
        log[k].op = "remove_symlinks" =>
            PrefixedLinks(After(k).links, log[k].stack) \subseteq log[k].src.undeletable

\* what the code does: the removal deletes nothing, attempts no deletion and
\* so never fails
C23_RemovalDeletesNothing ==
    \A k \in 1..NOps :
        log[k].op = "remove_symlinks" =>
            /\ After(k).links = Before(k).links
            /\ log[k].ok

\* the stacks for which the k-th operation made a call of this step, and those
\* for which the call returned Ok
StacksCalled(k, step) ==
    { calls[k][i].stack : i \in { j \in 1..Len(calls[k]) : calls[k][j].step = step } }
StacksDone(k, step) ==
    { calls[k][i].stack :
        i \in { j \in 1..Len(calls[k]) : calls[k][j].step = step /\ calls[k][j].ok } }

\* the k-th operation was a cleanup that found stacks and pushed them
CleanedUp(k) ==
    /\ k <= NOps
    /\ log[k].op = "cleanup_worktree"
    /\ Len(calls[k]) > 1

\* C27 (the part that does not depend on a removal failing): a cleanup that
\* got past the push calls the symlink manager for every stack it found, in
\* the order it found them, then removes the stack directories, then
\* truncates the markdown file, and returns Ok.
C27_CleanupRunsEveryStep ==
    \A k \in 1..NOps :
        CleanedUp(k) =>
            LET made == calls[k]
                found == StacksCalled(k, "remove_symlinks")
                n == Cardinality(found)
            IN  /\ log[k].ok
                /\ found # {}
                /\ made[1].step = "push_stack_changes"
                /\ \A i \in 2..(n + 1) : made[i].step = "remove_symlinks"
                /\ \A i \in (n + 2)..(Len(made) - 1) : made[i].step = "remove_directory"
                /\ StacksCalled(k, "remove_directory") = found
                /\ Last(made) = Call(<<>>, "clean_claude_md", TRUE)
                /\ After(k).md = cleanup_demarcated_imports(Before(k).md)

\* C27 (its premise): no call of the symlink manager's removal returns an
\* error, whether made by a cleanup or directly, also when a link of the
\* stack cannot be deleted: the case the claim is about does not occur.
C27_RemovalNeverFails ==
    \A k \in 1..NOps : \A i \in 1..Len(calls[k]) :
        calls[k][i].step = "remove_symlinks" => calls[k][i].ok

\* the links that point into the directory of one of the stacks
LinksInto(fs, stacks) ==
    { tp \in TargetPaths : fs[tp].kind = "link" /\ fs[tp].dest.stack \in stacks }

\* C28: after a cleanup that returned Ok, no link is left that was created
\* for a stack the cleanup went through, and no link points into a stack
\* directory that the cleanup deleted.
C28_NoLinkOfCleanedStacks ==
    \A k \in 1..NOps :
        (CleanedUp(k) /\ log[k].ok) =>
            /\ LinksInto(After(k).links, StacksCalled(k, "remove_symlinks")) = {}
            /\ LinksInto(After(k).links, StacksDone(k, "remove_directory")) = {}

\* what the code does: a cleanup leaves every link where it was, and the
\* links of a stack whose directory it deleted point at nothing
C28_CleanupKeepsLinks ==
    \A k \in 1..NOps :
        log[k].op = "cleanup_worktree" => After(k).links = Before(k).links

\* stacks were composed and then cleaned up; the directory of stack a is
\* gone and its links are still there
C28_DanglingWitness ==
    /\ NOps >= 2
    /\ CleanedUp(NOps)
    /\ log[NOps].ok
    /\ StackA \notin stack_dirs
    /\ LinksInto(links, {StackA}) # {}

----------------------------------------------------------------------------
(* The reference after a demarcated apply (SpecMd).                        *)

\* C29: whenever add_stack_import_with_demarcation(stack) returns Ok, the
\* markdown file contains the reference @stacks/<stack>/CLAUDE.md, whatever
\* the file held before, `----` inside a longer line included.
C29_SuccessMeansReferenced ==
    \A k \in 1..NOps :
        (log[k].op = "add_import_demarcated" /\ log[k].ok) =>
            /\ After(k).md.exists
            /\ StrContains(After(k).md.text, ImportLine(log[k].stack))

\* C29 for the files in which every occurrence of `----` is a line of its
\* own, up to surrounding blanks
C29_HoldsWhenDashesAreALine ==
    \A k \in 1..NOps :
        ( /\ log[k].op = "add_import_demarcated" /\ log[k].ok
          /\ (StrContains(Before(k).md.text, DEMARCATION)
                => TrimmedSentinelLines(Before(k).md) >= 1) ) =>
            /\ After(k).md.exists
            /\ StrContains(After(k).md.text, ImportLine(log[k].stack))

----------------------------------------------------------------------------
(* The prefixed names of two stacks (SpecLinks).                           *)

\* two stacks were applied one after the other, both with success
AppliedInTurn(k) ==
    /\ k < NOps
    /\ log[k].op = "create_symlinks" /\ log[k].ok
    /\ log[k + 1].op = "create_symlinks" /\ log[k + 1].ok
    /\ log[k].stack # log[k + 1].stack

\* every file that the stack exports is linked at its prefixed name and the
\* link points at the stack's own file
OwnLinksInPlace(fs, stack) ==
    \A sub \in SubdirSet : \A f \in Exports(stack, sub) :
        fs[<<sub, PrefixedFilename(stack, f)>>] = LinkFor(stack, sub, f)

\* C30: after two stacks with different names were applied, every link of
\* both stacks is present and points at its own stack's file, whatever the
\* file names (stack a exporting b_x and stack a_b exporting x included).
C30_BothStacksLinksInPlace ==
    \A k \in 1..NOps :
        AppliedInTurn(k) =>
            /\ OwnLinksInPlace(After(k + 1).links, log[k].stack)
            /\ OwnLinksInPlace(After(k + 1).links, log[k + 1].stack)

\* what the code does: the stack applied last has all its links; a link of
\* the stack applied before it is lost exactly where the two prefixed names
\* are the same
C30_EarlierLinkLostWhereNamesMeet ==
    \A k \in 1..NOps :
        AppliedInTurn(k) =>
            LET A == log[k].stack
                B == log[k + 1].stack
                after == After(k + 1).links
            IN  /\ OwnLinksInPlace(after, B)
                /\ \A sub \in SubdirSet : \A f \in Exports(A, sub) :
                      after[<<sub, PrefixedFilename(A, f)>>] = LinkFor(A, sub, f)
                        <=> \A g \in Exports(B, sub) :
                                PrefixedFilename(B, g) # PrefixedFilename(A, f)

====
